---------------------------- MODULE Spec2Model ----------------------------
(***************************************************************************)
(* Model of cook-lib-rs:                                                   *)
(*   - FrameExtractorManager (api/video.rs): process_batch, reset,         *)
(*     get_stats, and the statistics counters behind their two mutexes;    *)
(*   - ExtractionState / StateMachine (frame_extractor/state_machine.rs); *)
(*   - FrameDeduplicator (core/video/deduplicator.rs);                     *)
(*   - FrameExtractor (frame_extractor/pipeline.rs).                       *)
(*                                                                         *)
(* Specifications:                                                         *)
(*   Spec          one caller driving one manager, batch after batch       *)
(*   SpecScenario  the 200-frame batch at 100 ms spacing                   *)
(*   SpecStats     several threads sharing one manager                     *)
(*   SpecSM        the state machine under every bounded configuration     *)
(*   SpecDedup     one deduplicator under every sequence of its calls      *)
(*   SpecPipeline  one extractor fed frames through process_frame          *)
(*   SpecFullPipeline  the extractor with text every cooldown_frames frames *)
(***************************************************************************)
EXTENDS Integers, Sequences, FiniteSets, TLC

VARIABLES
    \* ---- process_batch, one call (locals of the call) ----
    pc,              \* "idle" | "fold" | "extracted_count"
    frames,          \* the batch handed to the call
    idx,             \* position of the serial fold in the batch, 1-based
    last_content,    \* Option<RegionState>
    last_kept_ms,    \* u64
    extracted,       \* Vec<FrameExtractedInfo>, the value the call returns
    \* ---- FrameExtractorManager fields ----
    frame_count,     \* Mutex<u64>
    extracted_count, \* Mutex<u64>
    \* ---- threads sharing one manager (SpecStats) ----
    t_pc,            \* per thread: where it stands in its call
    t_ret,           \* per thread: batch_len and extracted.len() of its call
    count_holder,    \* thread holding the frame_count mutex across steps, 0 = free
    stats,           \* the ExtractionStats the latest get_stats returned
    calls,           \* bookkeeping of the calls made, for the statements about totals
    \* ---- StateMachine (SpecSM) ----
    state,           \* ExtractionState
    config,          \* StateConfig
    frame_counter,   \* u64
    sm_last,         \* the last process_frame call: state before, inputs, action,
                     \* the number of calls since one returned Extract or Drop
                     \* (since), and that number before this call's own
                     \* action is counted (gap); the frames with text and no
                     \* duplicate in a row that have not given Extract
                     \* (streak), this one counted whatever it gave (waited)
    \* ---- FrameDeduplicator (SpecDedup, and inside FrameExtractor) ----
    history,               \* VecDeque<RegionHashes>
    text_threshold,        \* u32
    min_interval_ms,       \* u64
    last_keyframe_time_ms, \* u64
    locked_subtitle_region, \* Option<(usize, usize)>: <<>> or <<y, height>>
    kept,                  \* every RegionHashes given to add_keyframe since new/clear
    dd_last,               \* the last call on the deduplicator and what it found
    \* ---- FrameExtractor (SpecPipeline) ----
    df_seen,               \* FrameDiffFilter: last_hash.is_some()
    fx_n,                  \* frames handed to process_frame since construction
    fx_results,            \* calls of process_frame that returned Some since new/reset
    fx_last,               \* the last process_frame call and its result
    \* ---- FrameDiffFilter (SpecDiff) ----
    df_threshold,          \* FrameDiffFilter.threshold: f32, in hundredths
    last_hash,             \* Option<u64>: <<>> or <<hash>>
    last_histogram,        \* Option<[u32; 64]>: <<>> or <<histogram>>
    df_n,                  \* calls made on the filter
    df_last,               \* the last call on the filter: the frame submitted
                           \* before it since new/reset, the frame, the result
    \* ---- VadHandle (SpecVad) ----
    vad_n,                 \* calls made on the handle
    vad_calls,             \* the calls the last detect_speech_segments made on
                           \* the engine, in order
    vad_last,              \* the last detect_speech_segments call and its result
    ex_last,               \* the last extract_segment call and its result
    \* ---- format_timestamp and the transcript line (SpecFormat) ----
    fmt_n,                 \* calls made
    fmt_last,              \* the last two format_timestamp calls: arguments, results
    line_last,             \* the last transcript line built: segment, text, line
    \* ---- NcnnHandle (SpecNcnn, and under AudioRecognizer) ----
    NCNN_RECOGNIZER,       \* OnceCell<Mutex<Recognizer>>: <<>> or <<recognizer>>
    ncnn_owner,            \* the holder of that mutex, 0 when free
    nh_pc,                 \* where each client of the handle is in its call
    nh_call,               \* the call a client is in
    nh_last,               \* the last call each client has returned from
    nh_inits,              \* init calls that returned Ok
    nh_n,                  \* calls begun on the handle
    \* ---- AudioRecognizer (SpecAudio) ----
    vad_owner,             \* the holder of the recognizer's vad mutex, 0 when free
    a_pc,                  \* where each transcribe_audio call is
    a_loc,                 \* its locals: pcm_16k, speech_segments, the loop index,
                           \* lines; and what the VAD and the ASR came back with
    a_ret,                 \* what it returned
    \* ---- load_wav_mono_f32 (SpecWav) ----
    wav_last               \* the last file loaded and what loading it gave

batchVars == <<pc, frames, idx, last_content, last_kept_ms, extracted>>
counterVars == <<frame_count, extracted_count>>
threadVars == <<t_pc, t_ret, count_holder, stats, calls>>
smVars == <<state, config, frame_counter, sm_last>>
dedupVars == <<history, text_threshold, min_interval_ms, last_keyframe_time_ms,
               locked_subtitle_region, kept, dd_last>>
fxVars == <<df_seen, fx_n, fx_results, fx_last>>

diffVars == <<df_threshold, last_hash, last_histogram, df_n, df_last>>
vadVars == <<vad_n, vad_calls, vad_last, ex_last>>
fmtVars == <<fmt_n, fmt_last, line_last>>
ncnnVars == <<NCNN_RECOGNIZER, ncnn_owner, nh_pc, nh_call, nh_last, nh_inits, nh_n>>
audioVars == <<vad_owner, a_pc, a_loc, a_ret>>
wavVars == <<wav_last>>
mediaVars == <<diffVars, vadVars, fmtVars, ncnnVars, audioVars, wavVars>>

vars == <<batchVars, counterVars, threadVars, smVars, dedupVars, fxVars, mediaVars>>

---------------------------------------------------------------------------
(* Bounds of the model *)

MaxBatch == 3
ScenarioFrames == 200
NumThreads == 2
MaxCalls == 2
MaxLock == 3
MaxCooldown == 2
MaxSMFrames == 6
MaxDedupCalls == 4
MaxFxFrames == 4
MaxScenarioCooldown == 5

(* Program constants *)

TARGET_SIZE == 512
MAX_INTERVAL_MS == 5000

---------------------------------------------------------------------------
(* RegionState and Option<RegionState> *)

RegionState(t, h) == [has_text |-> t, hash |-> h]

None == [some |-> FALSE, has_text |-> FALSE, hash |-> 0]

Some(c) == [some |-> TRUE, has_text |-> c.has_text, hash |-> c.hash]

(* (prev.hash ^ current.hash).count_ones(); analyze_region sets only the
   low 16 bits of the u64 hash. *)
Bit(n, i) == (n \div (2 ^ i)) % 2

count_ones_xor(a, b) == Cardinality({i \in 0..15 : Bit(a, i) # Bit(b, i)})

plain_sub(a, b) == a - b

(* u64::saturating_sub, u32::saturating_sub *)
saturating_sub(a, b) == IF a >= b THEN a - b ELSE 0

---------------------------------------------------------------------------
(* Inputs.  A frame is YFrameData; its y_plane is represented by
     complete : whether the plane holds width * height bytes, and
     scan     : what the pixel scan of analyze_region (horizontal
                projection, text rows, 4x4 grid hash) yields on the tile
                that crop_y_plane samples from the plane.
   The scan is a function of the pixel bytes alone, so it is drawn as an
   input; everything the code does around it is modelled. *)

Hashes == {0, 15, 31}

Scans == {RegionState(FALSE, 0)} \cup {RegionState(TRUE, h) : h \in Hashes}

Timestamps == {0, 5000, 5001}

WellFormed(f) == f.width > 0 /\ f.height > 0 /\ f.complete

Shapes ==
    {[width |-> 100, height |-> 100, complete |-> TRUE, scan |-> s] : s \in Scans}
    \cup {[width |-> 100, height |-> 100, complete |-> FALSE,
             scan |-> RegionState(TRUE, 0)]}
    \cup {[width |-> 0, height |-> 100, complete |-> TRUE, scan |-> RegionState(FALSE, 0)],
          [width |-> 100, height |-> 0, complete |-> TRUE, scan |-> RegionState(FALSE, 0)]}

YFrameData(s, ts, n) ==
    [width |-> s.width, height |-> s.height, complete |-> s.complete,
     scan |-> s.scan, timestamp_ms |-> ts, frame_number |-> n]

(* Batches of n frames; frame_number is the position in the batch. *)
BatchesOfLen(n) ==
    {[i \in 1..n |-> YFrameData(sh[i], ts[i], i)] :
        sh \in [1..n -> Shapes], ts \in [1..n -> Timestamps]}

---------------------------------------------------------------------------
(* crop_y_plane: trim top 11% and bottom 20%, centred square, scale to
   TARGET_SIZE.  (h as f32 * ratio) as usize is floor(h * ratio). *)
crop_y_plane(f) ==
    LET w == f.width
        h == f.height
        top_crop == (h * 11) \div 100
        bottom_crop == (h * 20) \div 100
        crop_height == h - top_crop - bottom_crop
    IN  IF crop_height = 0 \/ w = 0
        THEN [empty |-> TRUE, width |-> 0, height |-> 0,
              scan |-> RegionState(FALSE, 0)]
        ELSE [empty |-> FALSE, width |-> TARGET_SIZE, height |-> TARGET_SIZE,
              scan |-> f.scan]

(* analyze_region(data, width, height, start_pct, end_pct) *)
analyze_region(cropped, start_pct, end_pct) ==
    LET w == cropped.width
        h == cropped.height
        y_start == (h * start_pct) \div 100
        y_end == (h * end_pct) \div 100
    IN  IF y_end <= y_start \/ w = 0
        THEN RegionState(FALSE, 0)
        ELSE cropped.scan

(* The per-frame closure of the parallel map. *)
content_info(f) == analyze_region(crop_y_plane(f), 0, 100)

---------------------------------------------------------------------------
has_region_changed_ge4(last, current) ==
    IF ~last.some
    THEN current.has_text
    ELSE IF last.has_text # current.has_text
         THEN TRUE
         ELSE IF last.has_text /\ current.has_text
              THEN count_ones_xor(last.hash, current.hash) >= 4
              ELSE FALSE

(* has_region_changed(last, current) *)
has_region_changed(last, current) ==
    IF ~last.some
    THEN current.has_text
    ELSE IF last.has_text # current.has_text
         THEN TRUE
         ELSE IF last.has_text /\ current.has_text
              THEN count_ones_xor(last.hash, current.hash) > 4
              ELSE FALSE

time_force_keep_ge(f, curr, kept_ms) ==
    saturating_sub(f.timestamp_ms, kept_ms) >= MAX_INTERVAL_MS /\ curr.has_text

time_force_keep(f, curr, kept_ms) ==
    saturating_sub(f.timestamp_ms, kept_ms) > MAX_INTERVAL_MS /\ curr.has_text

FrameExtractedInfo_next_number(f, cropped) ==
    [timestamp_ms |-> f.timestamp_ms, frame_number |-> f.frame_number + 1,
     width |-> cropped.width, height |-> cropped.height]

FrameExtractedInfo(f, cropped) ==
    [timestamp_ms |-> f.timestamp_ms, frame_number |-> f.frame_number,
     width |-> cropped.width, height |-> cropped.height]

push_front(vec, x) == <<x>> \o vec

push(vec, x) == Append(vec, x)

---------------------------------------------------------------------------
(* The serial loop of process_batch.  A fold state is the three locals the
   loop updates. *)

FoldInit_stale ==
    [extracted |-> <<>>, last_content |-> Some(RegionState(TRUE, 15)), last_kept_ms |-> 0]

(* `let mut extracted = Vec::new(); let mut last_content = None;
   let mut last_kept_ms = 0;` *)
FoldInit == [extracted |-> <<>>, last_content |-> None, last_kept_ms |-> 0]

(* The body of `for (frame_data, curr_content, cropped) in frame_results`. *)
fold_step(st, frame_data) ==
    LET cropped == crop_y_plane(frame_data)
        curr_content == content_info(frame_data)
        content_changed == has_region_changed(st.last_content, curr_content)
        force == time_force_keep(frame_data, curr_content, st.last_kept_ms)
    IN  IF content_changed \/ force
        THEN [extracted |-> push(st.extracted, FrameExtractedInfo(frame_data, cropped)),
              last_content |-> Some(curr_content),
              last_kept_ms |-> frame_data.timestamp_ms]
        ELSE st

RECURSIVE fold(_, _)
fold(fs, n) == IF n = 0 THEN FoldInit ELSE fold_step(fold(fs, n - 1), fs[n])

(* The vector a whole call returns. *)
process_batch_result(fs) == fold(fs, Len(fs)).extracted

---------------------------------------------------------------------------
(* StateMachine *)

Scanning(n) == [kind |-> "Scanning", n |-> n]
Locked(n) == [kind |-> "Locked", n |-> n]
Cooldown(n) == [kind |-> "Cooldown", n |-> n]

Continue == [kind |-> "Continue", n |-> 0]
SkipFrames(n) == [kind |-> "SkipFrames", n |-> n]
Extract == [kind |-> "Extract", n |-> 0]
Drop == [kind |-> "Drop", n |-> 0]

StateConfig(i, m, l, c) ==
    [initial_skip |-> i, max_skip |-> m, min_lock_frames |-> l, cooldown_frames |-> c]

DefaultConfig == StateConfig(5, 15, 3, 30)
for_high_motion == StateConfig(2, 8, 2, 20)
for_low_motion == StateConfig(8, 20, 5, 45)

(* ExtractionState::new() *)
ExtractionState_new == Scanning(5)

Min_unsaturated(a, b) == a

Min(a, b) == IF a <= b THEN a ELSE b

always_extract(is_duplicate) == Extract

extract_or_drop(is_duplicate) == IF is_duplicate THEN Drop ELSE Extract

first_text_extracts_strict(cfg) == 1 > cfg.min_lock_frames

first_text_extracts_from_two(cfg) == 2 >= cfg.min_lock_frames

(* `if 1 >= config.min_lock_frames` in the Scanning arm *)
first_text_extracts(cfg) == 1 >= cfg.min_lock_frames

lock_reached_strict(new_count, cfg) == new_count > cfg.min_lock_frames

(* `if new_count >= config.min_lock_frames` in the Locked arm *)
lock_reached(new_count, cfg) == new_count >= cfg.min_lock_frames

cooldown_over_early(new_remaining) == new_remaining <= 1

(* `if new_remaining == 0` in the Cooldown arm *)
cooldown_over(new_remaining) == new_remaining = 0

(* ExtractionState::transition: <<new state, action>> *)
transition(self, has_text, is_duplicate, cfg) ==
    CASE self.kind = "Scanning" ->
            IF has_text
            THEN IF first_text_extracts(cfg)
                 THEN <<Cooldown(cfg.cooldown_frames), extract_or_drop(is_duplicate)>>
                 ELSE <<Locked(1), Continue>>
            ELSE LET new_skip == Min(self.n + 1, cfg.max_skip)
                 IN  <<Scanning(new_skip), SkipFrames(self.n)>>
      [] self.kind = "Locked" ->
            IF has_text
            THEN LET new_count == self.n + 1
                 IN  IF lock_reached(new_count, cfg)
                     THEN <<Cooldown(cfg.cooldown_frames), extract_or_drop(is_duplicate)>>
                     ELSE <<Locked(new_count), Continue>>
            ELSE IF self.n >= cfg.min_lock_frames \div 2
                 THEN <<Cooldown(cfg.cooldown_frames), extract_or_drop(is_duplicate)>>
                 ELSE <<Scanning(cfg.initial_skip), Continue>>
      [] self.kind = "Cooldown" ->
            LET new_remaining == saturating_sub(self.n, 1)
            IN  IF cooldown_over(new_remaining)
                THEN <<Scanning(cfg.initial_skip), Continue>>
                ELSE <<Cooldown(new_remaining), SkipFrames(1)>>

NoFrameYet ==
    [stepped |-> FALSE, prev |-> Scanning(0), has_text |-> FALSE,
     is_duplicate |-> FALSE, action |-> Continue, since |-> -1, gap |-> -1,
     streak |-> 0, waited |-> 0]

---------------------------------------------------------------------------
(* FrameDeduplicator (core/video/deduplicator.rs) *)

(* RegionHashes, by the two fields check_duplicate reads.  Hash values are
   kept below 2^24 *)
RegionHashes(band, ts) == [subtitle_band |-> band, timestamp_ms |-> ts]

(* a Frame, by the subtitle band hash its pixels give, its timestamp and
   its number *)
Frame(band, ts, n) == [band |-> band, timestamp_ms |-> ts, frame_number |-> n]

(* compute_region_hashes(frame): the hashes of the pixels, timestamp_ms: 0 *)
compute_region_hashes(frame) == RegionHashes(frame.band, 0)

hamming_distance(a, b) == Cardinality({i \in 0..23 : Bit(a, i) # Bit(b, i)})

DedupDecision(d, r, sim64, dist) ==
    [is_duplicate |-> d, reason |-> r, similarity64 |-> sim64, text_distance |-> dist]

(* `if time_since_last >= self.min_interval_ms` *)
force_interval(time_since_last, interval) == time_since_last >= interval

text_changed_ge(text_dist, threshold) == text_dist >= threshold

(* `if text_dist > self.text_threshold` *)
text_changed(text_dist, threshold) == text_dist > threshold

(* `if text_sim > 0.75` with text_sim = 1.0 - text_dist / 64.0, in 64ths *)
too_similar(text_dist) == 4 * (64 - text_dist) > 3 * 64

(* The decision of check_duplicate on the deduplicator's fields; the frame
   is given to add_keyframe exactly when the decision is not a duplicate. *)
check_duplicate(hist, last_time, interval, threshold, regions) ==
    LET time_since_last == saturating_sub(regions.timestamp_ms, last_time)
    IN  IF force_interval(time_since_last, interval)
        THEN DedupDecision(FALSE, "ForceInterval", 0, 64)
        ELSE IF hist # <<>>
             THEN LET last == hist[Len(hist)]
                      text_dist == hamming_distance(regions.subtitle_band,
                                                    last.subtitle_band)
                  IN  IF text_changed(text_dist, threshold)
                      THEN DedupDecision(FALSE, "TextChanged", 64 - text_dist, text_dist)
                      ELSE IF too_similar(text_dist)
                           THEN DedupDecision(TRUE, "TooSimilar", 64 - text_dist, text_dist)
                           ELSE DedupDecision(FALSE, "NewScene", 0, 64)
             ELSE DedupDecision(FALSE, "NewScene", 0, 64)

evict_newest(pushed) == IF Len(pushed) > 3 THEN SubSeq(pushed, 1, 3) ELSE pushed

(* `if self.history.len() > 3 { self.history.pop_front(); }` *)
evict(pushed) == IF Len(pushed) > 3 THEN Tail(pushed) ELSE pushed

(* add_keyframe, on the history *)
add_keyframe(hist, regions) == evict(Append(hist, regions))

NoCallYet ==
    [n |-> 0, op |-> "none", prev_op |-> "none", regions |-> RegionHashes(0, 0),
     decision |-> DedupDecision(FALSE, "none", 0, 64),
     had_last |-> FALSE, last_band |-> 0, last_time |-> 0, kept_ts |-> -1]

(* the record of one call: what the deduplicator held before it, and the
   timestamp of the frame kept last (kept_ts), timestamp_ms being that of
   the frame the call was given *)
CallRecordAt(op, regions, decision, timestamp_ms) ==
    [n |-> dd_last.n + 1, op |-> op, prev_op |-> dd_last.op, regions |-> regions,
     decision |-> decision,
     had_last |-> history # <<>>,
     last_band |-> IF history # <<>> THEN history[Len(history)].subtitle_band ELSE 0,
     last_time |-> last_keyframe_time_ms,
     kept_ts |-> IF decision.is_duplicate THEN dd_last.kept_ts ELSE timestamp_ms]

CallRecord(op, regions, decision) ==
    CallRecordAt(op, regions, decision, regions.timestamp_ms)

---------------------------------------------------------------------------
(* Initial values of the parts a specification does not drive *)

BatchIdle ==
    /\ pc = "idle"
    /\ frames = <<>>
    /\ idx = 1
    /\ last_content = None
    /\ last_kept_ms = 0
    /\ extracted = <<>>

Threads == 1..NumThreads

ThreadsIdle ==
    /\ t_pc = [t \in Threads |-> "idle"]
    /\ t_ret = [t \in Threads |-> [id |-> 0, n |-> 0, k |-> 0]]
    /\ count_holder = 0
    /\ stats = [processed_frames |-> 0, extracted_frames |-> 0]
    /\ calls = [next_id |-> 1, lo |-> {}, hi |-> {},
                clean |-> [t \in Threads |-> TRUE],
                during |-> [t \in Threads |-> {}]]

(* StateMachine::new() *)
MachineNew ==
    /\ config = DefaultConfig
    /\ state = Scanning(config.initial_skip)
    /\ frame_counter = 0
    /\ sm_last = NoFrameYet

(* FrameDeduplicator::new() *)
DedupNew ==
    /\ history = <<>>
    /\ text_threshold = 10
    /\ min_interval_ms = 400
    /\ last_keyframe_time_ms = 0
    /\ locked_subtitle_region = <<>>
    /\ kept = <<>>
    /\ dd_last = NoCallYet

(* FrameDeduplicator::with_threshold(text_thresh) *)
DedupWithThreshold(text_thresh) ==
    /\ history = <<>>
    /\ text_threshold = text_thresh
    /\ min_interval_ms = 250
    /\ last_keyframe_time_ms = 0
    /\ locked_subtitle_region = <<>>
    /\ kept = <<>>
    /\ dd_last = NoCallYet

NoResultYet == [called |-> FALSE, frame |-> Frame(0, 0, 0), has_text |-> FALSE,
                some |-> FALSE, frame_number |-> 0, op |-> "none",
                passed |-> FALSE, submitted |-> 0, before |-> Scanning(0),
                since_some |-> -1]

FxIdle ==
    /\ df_seen = FALSE
    /\ fx_n = 0
    /\ fx_results = 0
    /\ fx_last = NoResultYet

(* FrameDiffFilter::new(): threshold 0.10, nothing remembered *)
NoFilterCallYet == [op |-> "new", prev |-> <<>>, prev_result |-> FALSE,
                    frame |-> <<>>, result |-> FALSE]

FilterWithThreshold(t) ==
    /\ df_threshold = t
    /\ last_hash = <<>>
    /\ last_histogram = <<>>
    /\ df_n = 0
    /\ df_last = NoFilterCallYet

FilterNew == FilterWithThreshold(10)

(* VadHandle::new(): no call made yet *)
NoDetectYet == [called |-> FALSE, len |-> 0, sample_rate |-> 0, raw |-> <<>>,
                ok |-> FALSE, segments |-> <<>>]

NoExtractYet == [called |-> FALSE, len |-> 0, segment |-> <<>>, panicked |-> FALSE,
                 start |-> 0, end |-> 0]

VadNew ==
    /\ vad_n = 0
    /\ vad_calls = <<>>
    /\ vad_last = NoDetectYet
    /\ ex_last = NoExtractYet

NoFormatYet == [called |-> FALSE, prev |-> <<>>, seconds |-> <<>>, out |-> ""]

NoLineYet == [called |-> FALSE, segment |-> <<>>, text |-> "", pushed |-> FALSE,
              line |-> ""]

(* no file loaded yet *)
NoWavYet == [called |-> FALSE, wav |-> <<>>, result |-> <<>>]

WavIdle == wav_last = NoWavYet

FormatIdle ==
    /\ fmt_n = 0
    /\ fmt_last = NoFormatYet
    /\ line_last = NoLineYet

(* the clients of NcnnHandle *)
Clients == {1, 2}

NoHandleCall == [op |-> "none", sample_rate |-> 0, recognizer |-> 0,
                 initialized |-> FALSE, engine |-> FALSE, result |-> "none",
                 text |-> ""]

(* the static of handler.rs before any init *)
NcnnUninitialized ==
    /\ NCNN_RECOGNIZER = <<>>
    /\ ncnn_owner = 0
    /\ nh_pc = [t \in Clients |-> "idle"]
    /\ nh_call = [t \in Clients |-> NoHandleCall]
    /\ nh_last = [t \in Clients |-> NoHandleCall]
    /\ nh_inits = 0
    /\ nh_n = 0

(* the threads that call transcribe_audio on the one recognizer *)
Callers == {1, 2}

NoLocals == [loaded |-> FALSE, source_rate |-> 0, pcm_16k |-> [len |-> 0, rate |-> 0],
             vad_failed |-> FALSE, speech_segments |-> <<>>, index |-> 0,
             lines |-> <<>>, asr |-> <<>>, asr_seen |-> {}]

NotReturned == [returned |-> FALSE, ok |-> FALSE, value |-> ""]

(* no transcribe_audio call under way *)
CallersIdle ==
    /\ vad_owner = 0
    /\ a_pc = [c \in Callers |-> "idle"]
    /\ a_loc = [c \in Callers |-> NoLocals]
    /\ a_ret = [c \in Callers |-> NotReturned]

(* the audio and filter objects of the other specifications, untouched *)
MediaIdle ==
    /\ FilterNew
    /\ VadNew
    /\ FormatIdle
    /\ WavIdle
    /\ NcnnUninitialized
    /\ CallersIdle

(* the parts of FrameExtractor::new() beside its state machine *)
ExtractorNew ==
    /\ DedupWithThreshold(8)
    /\ FxIdle

---------------------------------------------------------------------------
(* Spec: one caller, one manager.  State after FrameExtractorManager::new() *)
Init ==
    /\ BatchIdle
    /\ frame_count = 0
    /\ extracted_count = 0
    /\ ThreadsIdle
    /\ MediaIdle
    /\ MachineNew
    /\ ExtractorNew

(* process_batch is called: the locals of the call are fresh. *)
StartBatch ==
    /\ pc = "idle"
    /\ \E n \in 0..MaxBatch :
          /\ frame_count + n <= MaxBatch
          /\ \E fs \in BatchesOfLen(n) : frames' = fs
    /\ pc' = "fold"
    /\ idx' = 1
    /\ last_content' = FoldInit.last_content
    /\ last_kept_ms' = FoldInit.last_kept_ms
    /\ extracted' = FoldInit.extracted
    /\ UNCHANGED <<counterVars, threadVars, smVars, dedupVars, fxVars, mediaVars>>

(* One iteration of the serial loop over frame_results. *)
DecideFrame ==
    /\ pc = "fold"
    /\ idx <= Len(frames)
    /\ LET r == fold_step([extracted |-> extracted, last_content |-> last_content,
                           last_kept_ms |-> last_kept_ms], frames[idx])
       IN  /\ extracted' = r.extracted
           /\ last_content' = r.last_content
           /\ last_kept_ms' = r.last_kept_ms
    /\ idx' = idx + 1
    /\ UNCHANGED <<pc, frames, counterVars, threadVars, smVars, dedupVars, fxVars, mediaVars>>

(* *count += batch_len, under the frame_count mutex. *)
AddFrameCount ==
    /\ pc = "fold"
    /\ idx > Len(frames)
    /\ frame_count' = frame_count + Len(frames)
    /\ pc' = "extracted_count"
    /\ UNCHANGED <<frames, idx, last_content, last_kept_ms, extracted,
                   extracted_count, threadVars, smVars, dedupVars, fxVars, mediaVars>>

(* *extracted_count += extracted.len(), under its mutex; then return. *)
AddExtractedCount ==
    /\ pc = "extracted_count"
    /\ extracted_count' = extracted_count + Len(extracted)
    /\ pc' = "idle"
    \* the call returns `extracted` and its locals are dropped
    /\ frames' = <<>>
    /\ idx' = 1
    /\ last_content' = None
    /\ last_kept_ms' = 0
    /\ extracted' = <<>>
    /\ UNCHANGED <<frame_count, threadVars, smVars, dedupVars, fxVars, mediaVars>>

(* reset(), called by the one caller between batches. *)
Reset ==
    /\ pc = "idle"
    /\ frame_count' = 0
    /\ extracted_count' = 0
    /\ UNCHANGED <<batchVars, threadVars, smVars, dedupVars, fxVars, mediaVars>>

Next ==
    \/ StartBatch
    \/ DecideFrame
    \/ AddFrameCount
    \/ AddExtractedCount
    \/ Reset

Spec == Init /\ [][Next]_vars

---------------------------------------------------------------------------
(* SpecScenario: one batch of ScenarioFrames well-formed frames that all
   scan to the same text-bearing analysis, 100 ms apart. *)

ScenarioBatch(t0, h) ==
    [i \in 1..ScenarioFrames |->
        YFrameData([width |-> 100, height |-> 100, complete |-> TRUE,
                    scan |-> RegionState(TRUE, h)],
                   t0 + (i - 1) * 100, i)]

StartScenarioBatch ==
    /\ pc = "idle"
    /\ frame_count = 0
    /\ \E t0 \in Timestamps : \E h \in Hashes : frames' = ScenarioBatch(t0, h)
    /\ pc' = "fold"
    /\ idx' = 1
    /\ last_content' = FoldInit.last_content
    /\ last_kept_ms' = FoldInit.last_kept_ms
    /\ extracted' = FoldInit.extracted
    /\ UNCHANGED <<counterVars, threadVars, smVars, dedupVars, fxVars, mediaVars>>

NextScenario ==
    \/ StartScenarioBatch
    \/ DecideFrame
    \/ AddFrameCount
    \/ AddExtractedCount
    \/ Reset

SpecScenario == Init /\ [][NextScenario]_vars

---------------------------------------------------------------------------
(* SpecStats: threads sharing one manager.  Each thread calls
   process_batch, reset or get_stats; a step is one critical section.  The
   map and the fold of process_batch touch no shared state, so they are
   one step with the call's start. *)

StatsBatchesOfLen(n) ==
    {[i \in 1..n |->
        YFrameData([width |-> 100, height |-> 100, complete |-> TRUE, scan |-> sc[i]],
                   0, i)] : sc \in [1..n -> Scans]}

InReset(t) == t_pc[t] \in {"rs_frame_count", "rs_extracted_count"}

(* process_batch up to the end of its loop *)
PbFold(t) ==
    /\ t_pc[t] = "idle"
    /\ calls.next_id <= MaxCalls
    /\ \E n \in 0..MaxBatch : \E fs \in StatsBatchesOfLen(n) :
          t_ret' = [t_ret EXCEPT ![t] =
                       [id |-> calls.next_id, n |-> Len(fs),
                        k |-> Len(process_batch_result(fs))]]
    /\ t_pc' = [t_pc EXCEPT ![t] = "pb_frame_count"]
    /\ calls' = [calls EXCEPT !.next_id = @ + 1, !.clean[t] = TRUE]
    /\ UNCHANGED <<batchVars, counterVars, count_holder, stats, smVars, dedupVars, fxVars, mediaVars>>

(* if let Ok(mut count) = self.frame_count.lock() { *count += batch_len; } *)
PbAddFrameCount(t) ==
    /\ t_pc[t] = "pb_frame_count"
    /\ count_holder = 0
    /\ frame_count' = frame_count + t_ret[t].n
    /\ t_pc' = [t_pc EXCEPT ![t] = "pb_extracted_count"]
    /\ UNCHANGED <<batchVars, extracted_count, t_ret, count_holder, stats, calls, smVars, dedupVars, fxVars, mediaVars>>

(* if let Ok(mut extracted_count) = self.extracted_count.lock()
   { *extracted_count += extracted.len() as u64; }  and the call returns *)
PbAddExtractedCount(t) ==
    /\ t_pc[t] = "pb_extracted_count"
    /\ extracted_count' = extracted_count + t_ret[t].k
    /\ t_pc' = [t_pc EXCEPT ![t] = "idle"]
    /\ calls' = [calls EXCEPT
                   !.hi = @ \cup {t_ret[t]},
                   !.lo = IF calls.clean[t] THEN @ \cup {t_ret[t]} ELSE @,
                   !.during = [r \in Threads |->
                                  IF InReset(r) THEN @[r] \cup {t_ret[t]} ELSE @[r]]]
    /\ UNCHANGED <<batchVars, frame_count, t_ret, count_holder, stats, smVars, dedupVars, fxVars, mediaVars>>

(* reset(): the extractor and the deduplicator are reset first *)
RsExtractor(t) ==
    /\ t_pc[t] = "idle"
    /\ t_pc' = [t_pc EXCEPT ![t] = "rs_frame_count"]
    /\ calls' = [calls EXCEPT !.during[t] = {}]
    /\ UNCHANGED <<batchVars, counterVars, t_ret, count_holder, stats, smVars, dedupVars, fxVars, mediaVars>>

(* if let Ok(mut count) = self.frame_count.lock() { *count = 0; } *)
RsFrameCount(t) ==
    /\ t_pc[t] = "rs_frame_count"
    /\ count_holder = 0
    /\ frame_count' = 0
    /\ t_pc' = [t_pc EXCEPT ![t] = "rs_extracted_count"]
    /\ UNCHANGED <<batchVars, extracted_count, t_ret, count_holder, stats, calls, smVars, dedupVars, fxVars, mediaVars>>

(* if let Ok(mut extracted) = self.extracted_count.lock() { *extracted = 0; }
   and the call returns *)
RsExtractedCount(t) ==
    /\ t_pc[t] = "rs_extracted_count"
    /\ extracted_count' = 0
    /\ t_pc' = [t_pc EXCEPT ![t] = "idle"]
    /\ calls' = [calls EXCEPT
                   !.lo = {},
                   !.hi = calls.during[t],
                   !.clean = [r \in Threads |-> FALSE]]
    /\ UNCHANGED <<batchVars, frame_count, t_ret, count_holder, stats, smVars, dedupVars, fxVars, mediaVars>>

get_stats_of_extractor ==
    [processed_frames |-> frame_counter, extracted_frames |-> Len(history)]

(* get_stats(): `ExtractionStats { processed_frames: *count,
   extracted_frames: *extracted }`, what a call returns in this state *)
get_stats ==
    [processed_frames |-> frame_count, extracted_frames |-> extracted_count]

(* get_stats: let count = self.frame_count.lock().unwrap(); the guard lives
   to the end of the function *)
GsLockFrameCount(t) ==
    /\ t_pc[t] = "idle"
    /\ count_holder = 0
    /\ count_holder' = t
    /\ t_pc' = [t_pc EXCEPT ![t] = "gs_extracted_count"]
    /\ UNCHANGED <<batchVars, counterVars, t_ret, stats, calls, smVars, dedupVars, fxVars, mediaVars>>

(* let extracted = self.extracted_count.lock().unwrap(); both are read and
   both guards dropped *)
GsReadCounts(t) ==
    /\ t_pc[t] = "gs_extracted_count"
    /\ stats' = get_stats
    /\ count_holder' = 0
    /\ t_pc' = [t_pc EXCEPT ![t] = "idle"]
    /\ UNCHANGED <<batchVars, counterVars, t_ret, calls, smVars, dedupVars, fxVars, mediaVars>>

NextStats ==
    \E t \in Threads :
        \/ PbFold(t)
        \/ PbAddFrameCount(t)
        \/ PbAddExtractedCount(t)
        \/ RsExtractor(t)
        \/ RsFrameCount(t)
        \/ RsExtractedCount(t)
        \/ GsLockFrameCount(t)
        \/ GsReadCounts(t)

SpecStats == Init /\ [][NextStats]_vars

---------------------------------------------------------------------------
(* SpecSM: a StateMachine built by with_config, fed frames and reset. *)

Configs ==
    {DefaultConfig, for_high_motion, for_low_motion}
    \cup {StateConfig(i, m, l, c) :
             i \in {1, 3}, m \in {2, 4}, l \in 0..MaxLock, c \in 0..MaxCooldown}

(* StateMachine::with_config(config) *)
InitSM ==
    /\ BatchIdle
    /\ frame_count = 0
    /\ extracted_count = 0
    /\ ThreadsIdle
    /\ MediaIdle
    /\ ExtractorNew
    /\ config \in Configs
    /\ state = Scanning(config.initial_skip)
    /\ frame_counter = 0
    /\ sm_last = NoFrameYet

(* StateMachine::process_frame(has_text, is_duplicate); the action it
   returns is transition(state, has_text, is_duplicate, config)[2] *)
process_frame(has_text, is_duplicate) ==
          LET r == transition(state, has_text, is_duplicate, config)
          IN  /\ frame_counter' = frame_counter + 1
              /\ state' = r[1]
              /\ sm_last' = [stepped |-> TRUE, prev |-> state, has_text |-> has_text,
                             is_duplicate |-> is_duplicate, action |-> r[2],
                             since |-> IF r[2] \in {Extract, Drop} THEN 0
                                       ELSE IF sm_last.since < 0 THEN -1
                                       ELSE sm_last.since + 1,
                             gap |-> IF sm_last.since < 0 THEN -1
                                     ELSE sm_last.since + 1,
                             streak |-> IF has_text /\ ~is_duplicate /\ r[2] # Extract
                                        THEN sm_last.streak + 1 ELSE 0,
                             waited |-> IF has_text /\ ~is_duplicate
                                        THEN sm_last.streak + 1 ELSE 0]

SmProcessFrame ==
    /\ frame_counter < MaxSMFrames
    /\ \E has_text \in BOOLEAN : \E is_duplicate \in BOOLEAN :
          process_frame(has_text, is_duplicate)
    /\ UNCHANGED <<config, batchVars, counterVars, threadVars, dedupVars, fxVars, mediaVars>>

(* StateMachine::reset() *)
SmReset ==
    /\ state' = ExtractionState_new
    /\ frame_counter' = 0
    /\ sm_last' = NoFrameYet
    /\ UNCHANGED <<config, batchVars, counterVars, threadVars, dedupVars, fxVars, mediaVars>>

NextSM == SmProcessFrame \/ SmReset

SpecSM == InitSM /\ [][NextSM]_vars

---------------------------------------------------------------------------
(* SpecDedup: one FrameDeduplicator, built by new() or with_threshold(t),
   called through check_duplicate, is_duplicate, add, add_hash and clear. *)

Bands == {0, 2047, 1048575}

DedupTimestamps == {0, 100, 400}

(* timestamps of the frames given to is_duplicate and add *)
FrameTimestamps == {100}

Thresholds == {8, 20}

InitDedup ==
    /\ BatchIdle
    /\ frame_count = 0
    /\ extracted_count = 0
    /\ ThreadsIdle
    /\ MediaIdle
    /\ MachineNew
    /\ FxIdle
    /\ DedupNew \/ \E t \in Thresholds : DedupWithThreshold(t)

(* the decision made on regions, computed from the frame whose timestamp is
   timestamp_ms, and add_keyframe(regions) unless it is a duplicate; op
   names the entry point *)
CheckDuplicateAt(op, regions, timestamp_ms, d) ==
        /\ history' = IF d.is_duplicate THEN history
                      ELSE add_keyframe(history, regions)
        /\ last_keyframe_time_ms' = IF d.is_duplicate THEN last_keyframe_time_ms
                                    ELSE regions.timestamp_ms
        /\ kept' = IF d.is_duplicate THEN kept ELSE Append(kept, regions)
        /\ dd_last' = CallRecordAt(op, regions, d, timestamp_ms)

(* check_duplicate(&regions), as op names the entry point *)
CheckDuplicate(op, regions, timestamp_ms) ==
    CheckDuplicateAt(op, regions, timestamp_ms,
                     check_duplicate(history, last_keyframe_time_ms, min_interval_ms,
                                     text_threshold, regions))

(* add_keyframe(regions), as op names the entry point *)
AddKeyframe(op, regions, timestamp_ms) ==
    /\ history' = add_keyframe(history, regions)
    /\ last_keyframe_time_ms' = regions.timestamp_ms
    /\ kept' = Append(kept, regions)
    /\ dd_last' = CallRecordAt(op, regions, DedupDecision(FALSE, "none", 0, 64),
                               timestamp_ms)

(* a Y plane of height 100, by what the detector finds in it (subtitle: <<>>
   or <<band_y, band_height>>), the hash of its pixels over that band, or
   over the default band when none is found (band), and over any other
   band (other) *)
YPlane(band, other, subtitle) == [band |-> band, other |-> other, subtitle |-> subtitle]

(* detector.subtitle_band_hash(y_plane, width, height), its position part *)
subtitle_band_hash(y_plane) == y_plane.subtitle

(* `let default_y = h * 7 / 10; let default_h = h * 3 / 10;` for h = 100 *)
default_region == <<(100 * 7) \div 10, (100 * 3) \div 10>>

(* phash_y_region over the rows of region widened by region_flex *)
phash_y_region(y_plane, region) ==
    IF region = (IF y_plane.subtitle = <<>> THEN default_region ELSE y_plane.subtitle)
    THEN y_plane.band
    ELSE y_plane.other

(* the region compute_locked_region_hash leaves locked *)
lock_region(locked, y_plane) ==
    IF locked = <<>> THEN subtitle_band_hash(y_plane) ELSE locked

(* compute_locked_region_hash(y_plane, width, height): `timestamp_ms: 0` *)
compute_locked_region_hash(locked, y_plane) ==
    LET now_locked == lock_region(locked, y_plane)
        region == IF now_locked = <<>> THEN default_region ELSE now_locked
    IN  RegionHashes(phash_y_region(y_plane, region), 0)

(* the decision of check_duplicate_with_y_plane: the interval is measured
   from the timestamp_ms argument, the band taken from the locked region *)
check_duplicate_with_y_plane(hist, last_time, interval, threshold, hash, ts) ==
    check_duplicate(hist, last_time, interval, threshold,
                    RegionHashes(hash.subtitle_band, ts))

(* the Y planes given to check_duplicate_with_y_plane *)
YPlanes == {YPlane(0, 2047, <<>>), YPlane(2047, 0, <<80, 10>>)}

YPlaneTimestamps == {100, 400}

DedupRest == <<text_threshold, min_interval_ms, batchVars, counterVars,
               threadVars, smVars, fxVars, mediaVars>>

DdCheckDuplicate ==
    /\ dd_last.n < MaxDedupCalls
    /\ \E band \in Bands : \E ts \in DedupTimestamps :
          CheckDuplicate("check_duplicate", RegionHashes(band, ts), ts)
    /\ UNCHANGED <<locked_subtitle_region, DedupRest>>

(* check_duplicate_with_y_plane(y_plane, width, height, timestamp_ms) *)
DdCheckDuplicateWithYPlane ==
    /\ dd_last.n < MaxDedupCalls
    /\ \E y_plane \in YPlanes : \E ts \in YPlaneTimestamps :
          LET current_hash == compute_locked_region_hash(locked_subtitle_region, y_plane)
          IN  /\ locked_subtitle_region' = lock_region(locked_subtitle_region, y_plane)
              /\ CheckDuplicateAt("check_duplicate_with_y_plane", current_hash, ts,
                     check_duplicate_with_y_plane(history, last_keyframe_time_ms,
                                                  min_interval_ms, text_threshold,
                                                  current_hash, ts))
    /\ UNCHANGED DedupRest

(* is_duplicate(&frame) *)
DdIsDuplicate ==
    /\ dd_last.n < MaxDedupCalls
    /\ \E band \in Bands : \E ts \in FrameTimestamps :
          CheckDuplicate("is_duplicate", compute_region_hashes(Frame(band, ts, 0)), ts)
    /\ UNCHANGED <<locked_subtitle_region, DedupRest>>

(* add(&frame) *)
DdAdd ==
    /\ dd_last.n < MaxDedupCalls
    /\ \E band \in Bands : \E ts \in FrameTimestamps :
          AddKeyframe("add", compute_region_hashes(Frame(band, ts, 0)), ts)
    /\ UNCHANGED <<locked_subtitle_region, DedupRest>>

(* add_hash(hash) *)
DdAddHash ==
    /\ dd_last.n < MaxDedupCalls
    /\ \E hash \in Bands :
          AddKeyframe("add_hash", RegionHashes(hash, last_keyframe_time_ms),
                      IF dd_last.kept_ts < 0 THEN last_keyframe_time_ms
                      ELSE dd_last.kept_ts)
    /\ UNCHANGED <<locked_subtitle_region, DedupRest>>

(* clear() *)
DdClear ==
    /\ history' = <<>>
    /\ last_keyframe_time_ms' = 0
    /\ locked_subtitle_region' = <<>>
    /\ kept' = <<>>
    /\ dd_last' = NoCallYet
    /\ UNCHANGED DedupRest

NextDedup ==
    \/ DdCheckDuplicate
    \/ DdCheckDuplicateWithYPlane
    \/ DdIsDuplicate
    \/ DdAdd
    \/ DdAddHash
    \/ DdClear

SpecDedup == InitDedup /\ [][NextDedup]_vars

---------------------------------------------------------------------------
(* SpecPipeline: one FrameExtractor built by with_config, fed frames through
   process_frame, and reset. *)

ExtractionConfig(sc, dedup_threshold) ==
    [state_config |-> sc, dedup_threshold |-> dedup_threshold]

FxConfigs ==
    {ExtractionConfig(DefaultConfig, 8),
     ExtractionConfig(for_high_motion, 10),
     ExtractionConfig(for_low_motion, 6)}
    \cup {ExtractionConfig(StateConfig(5, 15, 1, c), 8) : c \in 1..MaxCooldown}

(* FrameExtractor::with_config(cfg) *)
with_config(cfg) ==
    /\ BatchIdle
    /\ frame_count = 0
    /\ extracted_count = 0
    /\ ThreadsIdle
    /\ MediaIdle
    /\ config = cfg.state_config
    /\ state = Scanning(config.initial_skip)
    /\ frame_counter = 0
    /\ sm_last = NoFrameYet
    /\ DedupWithThreshold(cfg.dedup_threshold)
    /\ FxIdle

InitPipeline == \E cfg \in FxConfigs : with_config(cfg)

(* FrameExtractor::extracted_count() *)
FrameExtractor_extracted_count == Len(history)

(* what the last call returned, and beside it: the entry point, whether the
   diff filter let the frame through, the frames submitted since
   construction or reset, the state the machine was in, and the frames
   submitted since one was returned *)
FxResult(op, frame, has_text, passed, some) ==
    [called |-> TRUE, frame |-> frame, has_text |-> has_text, some |-> some,
     frame_number |-> IF some THEN frame.frame_number ELSE 0,
     op |-> op, passed |-> passed, submitted |-> fx_last.submitted + 1,
     before |-> state,
     since_some |-> IF some THEN 0
                    ELSE IF fx_last.since_some < 0 THEN -1
                    ELSE fx_last.since_some + 1]

(* FrameExtractor::process_frame(frame, detector), the detector reporting
   has_text on the frame; passes is what the diff filter finds against the
   frame before *)
FxProcessFrame(frame, has_text, passes) ==
    LET should_process == IF df_seen THEN passes ELSE TRUE
        regions == compute_region_hashes(frame)
        d == check_duplicate(history, last_keyframe_time_ms, min_interval_ms,
                             text_threshold, regions)
        action == transition(state, has_text, d.is_duplicate, config)[2]
        checked == IF d.is_duplicate THEN history ELSE add_keyframe(history, regions)
        kept_checked == IF d.is_duplicate THEN kept ELSE Append(kept, regions)
        is_dup_call == CallRecordAt("is_duplicate", regions, d, frame.timestamp_ms)
    IN  /\ df_seen' = TRUE
        /\ fx_n' = fx_n + 1
        /\ IF ~should_process
           THEN /\ fx_last' = FxResult("process_frame", frame, has_text, FALSE, FALSE)
                /\ UNCHANGED <<fx_results, smVars, dedupVars>>
           ELSE /\ process_frame(has_text, d.is_duplicate)
                /\ IF action = Extract
                   THEN /\ history' = add_keyframe(checked, regions)
                        /\ kept' = Append(kept_checked, regions)
                        /\ dd_last' = [is_dup_call EXCEPT !.n = @ + 1, !.op = "add",
                                          !.prev_op = "is_duplicate",
                                          !.kept_ts = frame.timestamp_ms]
                        /\ fx_results' = fx_results + 1
                   ELSE /\ history' = checked
                        /\ kept' = kept_checked
                        /\ dd_last' = is_dup_call
                        /\ fx_results' = fx_results
                /\ fx_last' = FxResult("process_frame", frame, has_text, TRUE,
                                       action = Extract)
                /\ last_keyframe_time_ms' =
                      IF d.is_duplicate /\ action # Extract
                      THEN last_keyframe_time_ms ELSE regions.timestamp_ms
                /\ UNCHANGED <<config, text_threshold, min_interval_ms,
                               locked_subtitle_region>>
        /\ UNCHANGED <<batchVars, counterVars, threadVars, mediaVars>>

(* FrameExtractor::process_frame_with_detection(frame, has_text, confidence) *)
FxProcessFrameWithDetection(frame, has_text, passes) ==
    LET should_process == IF df_seen THEN passes ELSE TRUE
        regions == compute_region_hashes(frame)
        d == check_duplicate(history, last_keyframe_time_ms, min_interval_ms,
                             text_threshold, regions)
        action == transition(state, has_text, d.is_duplicate, config)[2]
        checked == IF d.is_duplicate THEN history ELSE add_keyframe(history, regions)
        kept_checked == IF d.is_duplicate THEN kept ELSE Append(kept, regions)
        is_dup_call == CallRecordAt("is_duplicate", regions, d, frame.timestamp_ms)
    IN  /\ df_seen' = TRUE
        /\ fx_n' = fx_n + 1
        /\ IF ~should_process
           THEN /\ process_frame(FALSE, FALSE)
                /\ fx_last' = FxResult("process_frame_with_detection", frame,
                                       has_text, FALSE, FALSE)
                /\ UNCHANGED <<config, fx_results, dedupVars>>
           ELSE /\ process_frame(has_text, d.is_duplicate)
                /\ IF action = Extract
                   THEN /\ history' = add_keyframe(checked, regions)
                        /\ kept' = Append(kept_checked, regions)
                        /\ dd_last' = [is_dup_call EXCEPT !.n = @ + 1, !.op = "add",
                                          !.prev_op = "is_duplicate",
                                          !.kept_ts = frame.timestamp_ms]
                        /\ fx_results' = fx_results + 1
                   ELSE /\ history' = checked
                        /\ kept' = kept_checked
                        /\ dd_last' = is_dup_call
                        /\ fx_results' = fx_results
                /\ fx_last' = FxResult("process_frame_with_detection", frame,
                                       has_text, TRUE, action = Extract)
                /\ last_keyframe_time_ms' =
                      IF d.is_duplicate /\ action # Extract
                      THEN last_keyframe_time_ms ELSE regions.timestamp_ms
                /\ UNCHANGED <<config, text_threshold, min_interval_ms,
                               locked_subtitle_region>>
        /\ UNCHANGED <<batchVars, counterVars, threadVars, mediaVars>>

(* region_hashes_from_y_plane(y_plane, width, height, timestamp_ms), the
   plane given as the frame it was taken from *)
region_hashes_from_y_plane(frame) == RegionHashes(frame.band, frame.timestamp_ms)

(* FrameExtractor::process_y_frame(width, height, y_plane, detector,
   timestamp_ms, frame_number) *)
FxProcessYFrame(frame, has_text, passes) ==
    LET should_process_y == IF df_seen THEN passes ELSE TRUE
        region_hashes == region_hashes_from_y_plane(frame)
        decision == check_duplicate(history, last_keyframe_time_ms, min_interval_ms,
                                    text_threshold, region_hashes)
        action == transition(state, has_text, decision.is_duplicate, config)[2]
    IN  /\ df_seen' = TRUE
        /\ fx_n' = fx_n + 1
        /\ IF ~should_process_y
           THEN /\ process_frame(FALSE, FALSE)
                /\ fx_last' = FxResult("process_y_frame", frame, has_text, FALSE, FALSE)
                /\ UNCHANGED <<config, fx_results, dedupVars>>
           ELSE /\ CheckDuplicateAt("check_duplicate", region_hashes,
                                    frame.timestamp_ms, decision)
                /\ process_frame(has_text, decision.is_duplicate)
                /\ fx_results' = IF action = Extract THEN fx_results + 1 ELSE fx_results
                /\ fx_last' = FxResult("process_y_frame", frame, has_text, TRUE,
                                       action = Extract)
                /\ UNCHANGED <<config, text_threshold, min_interval_ms,
                               locked_subtitle_region>>
        /\ UNCHANGED <<batchVars, counterVars, threadVars, mediaVars>>

FxFrame ==
    /\ fx_n < MaxFxFrames
    /\ \E band \in Bands : \E has_text \in BOOLEAN : \E passes \in BOOLEAN :
          FxProcessFrame(Frame(band, 33 * (fx_n + 1), fx_n + 1), has_text, passes)

FxFrameWithDetection ==
    /\ fx_n < MaxFxFrames
    /\ \E band \in Bands : \E has_text \in BOOLEAN : \E passes \in BOOLEAN :
          FxProcessFrameWithDetection(Frame(band, 33 * (fx_n + 1), fx_n + 1),
                                      has_text, passes)

FxYFrame ==
    /\ fx_n < MaxFxFrames
    /\ \E band \in Bands : \E has_text \in BOOLEAN : \E passes \in BOOLEAN :
          FxProcessYFrame(Frame(band, 33 * (fx_n + 1), fx_n + 1), has_text, passes)

(* FrameExtractor::reset() *)
FxReset ==
    /\ df_seen' = FALSE
    /\ state' = ExtractionState_new
    /\ frame_counter' = 0
    /\ sm_last' = NoFrameYet
    /\ history' = <<>>
    /\ last_keyframe_time_ms' = 0
    /\ locked_subtitle_region' = <<>>
    /\ kept' = <<>>
    /\ dd_last' = NoCallYet
    /\ fx_results' = 0
    /\ fx_last' = NoResultYet
    /\ UNCHANGED <<fx_n, config, text_threshold, min_interval_ms,
                   batchVars, counterVars, threadVars, mediaVars>>

NextPipeline == FxFrame \/ FxFrameWithDetection \/ FxYFrame \/ FxReset

SpecPipeline == InitPipeline /\ [][NextPipeline]_vars

---------------------------------------------------------------------------
(* SpecFullPipeline: the extractor under min_lock_frames = 1 and
   cooldown_frames = c, every frame passing the diff filter, the detector
   reporting text on frames c, 2c and 3c only. *)

ScenarioBands == {0, 2047}

InitFullPipeline ==
    \E c \in 1..MaxScenarioCooldown :
        with_config(ExtractionConfig(StateConfig(5, 15, 1, c), 8))

FullPipelineFrame ==
    /\ fx_n < 3 * config.cooldown_frames
    /\ \E band \in ScenarioBands :
          FxProcessFrame(Frame(band, 33 * (fx_n + 1), fx_n + 1),
                         (fx_n + 1) % config.cooldown_frames = 0, TRUE)

NextFullPipeline == FullPipelineFrame

SpecFullPipeline == InitFullPipeline /\ [][NextFullPipeline]_vars

---------------------------------------------------------------------------
(* Properties of process_batch under Spec *)

(* The serial loop of the running call is over: `extracted` is the value
   the call returns. *)
LoopDone == (pc = "fold" /\ idx > Len(frames)) \/ pc = "extracted_count"

(* Frames 1..Processed of the batch have been decided. *)
Processed == IF pc = "idle" THEN 0 ELSE idx - 1

(* frame_number is the position in the batch, so it names the frame. *)
Kept(i) == \E k \in 1..Len(extracted) : extracted[k].frame_number = i

RECURSIVE PopXor(_, _)
PopXor(a, b) ==
    IF a = 0 /\ b = 0 THEN 0
    ELSE (IF a % 2 # b % 2 THEN 1 ELSE 0) + PopXor(a \div 2, b \div 2)

(* The keep/drop rule as the claim words it, folded over frames 1..n:
   last (initially absent), last_kept_ts (initially 0) and the positions
   kept. *)
RECURSIVE ClaimFold(_)
ClaimFold(n) ==
    IF n = 0
    THEN [last |-> None, last_kept_ts |-> 0, kept |-> <<>>]
    ELSE LET p == ClaimFold(n - 1)
             f == frames[n]
             current == content_info(f)
             content_changed ==
                 \/ ~p.last.some /\ current.has_text
                 \/ p.last.some /\ p.last.has_text # current.has_text
                 \/ /\ p.last.some /\ p.last.has_text /\ current.has_text
                    /\ PopXor(p.last.hash, current.hash) > 4
             time_forced ==
                 f.timestamp_ms - p.last_kept_ts > 5000 /\ current.has_text
         IN  IF content_changed \/ time_forced
             THEN [last |-> Some(current), last_kept_ts |-> f.timestamp_ms,
                   kept |-> Append(p.kept, n)]
             ELSE p

(* C1: frames are decided serially in input order; a frame is emitted iff
   content_changed or time_forced, with `last` the analysis of the most
   recently kept frame of this call (initially absent) and last_kept_ts
   its timestamp (initially 0), both changing only when a frame is kept. *)
C1_KeepIffChangedOrForced ==
    pc # "idle" =>
        LET r == ClaimFold(Processed)
        IN  /\ last_content = r.last
            /\ last_kept_ms = r.last_kept_ts
            /\ Len(extracted) = Len(r.kept)
            /\ \A k \in 1..Len(extracted) :
                  /\ extracted[k].frame_number = r.kept[k]
                  /\ extracted[k].timestamp_ms = frames[r.kept[k]].timestamp_ms

(* A batch where frame 1 is kept as the first text frame, frame 2 is
   dropped at Hamming distance 4 and 5000 ms, and frame 3 is kept by the
   timer alone. *)
C1_Witness ==
    /\ LoopDone
    /\ Len(frames) = 3
    /\ content_info(frames[1]) = RegionState(TRUE, 0)
    /\ content_info(frames[2]) = RegionState(TRUE, 15)
    /\ content_info(frames[3]) = RegionState(TRUE, 15)
    /\ frames[1].timestamp_ms = 0
    /\ frames[2].timestamp_ms = 5000
    /\ frames[3].timestamp_ms = 5001
    /\ Kept(1) /\ ~Kept(2) /\ Kept(3)

OutputSorted ==
    \A k \in 1..(Len(extracted) - 1) :
        extracted[k].timestamp_ms <= extracted[k + 1].timestamp_ms

InputSorted ==
    \A i \in 1..(Len(frames) - 1) :
        frames[i].timestamp_ms <= frames[i + 1].timestamp_ms

(* C3 as stated: for every input batch the keyframes are in non-decreasing
   timestamp order. *)
C3_SortedForEveryBatch == OutputSorted

(* C3 amended: for every input batch whose frames are in non-decreasing
   timestamp order, the keyframes are in non-decreasing timestamp order. *)
C3_SortedForSortedInput == InputSorted => OutputSorted

C3_Witness ==
    /\ LoopDone
    /\ InputSorted
    /\ Len(extracted) >= 2
    /\ extracted[1].timestamp_ms < extracted[2].timestamp_ms

RECURSIVE IsSubsequence(_, _)
IsSubsequence(out, in) ==
    IF out = <<>> THEN TRUE
    ELSE IF in = <<>> THEN FALSE
    ELSE IF /\ Head(out).timestamp_ms = Head(in).timestamp_ms
            /\ Head(out).frame_number = Head(in).frame_number
         THEN IsSubsequence(Tail(out), Tail(in))
         ELSE IsSubsequence(out, Tail(in))

(* C4: the output of process_batch is a subsequence of the input: it is no
   longer than the input, every output (timestamp_ms, frame_number) is that
   of an input frame, and output order preserves input order. *)
C4_OutputIsSubsequence ==
    pc # "idle" =>
        /\ Len(extracted) <= Processed
        /\ IsSubsequence(extracted, SubSeq(frames, 1, Processed))

C4_Witness ==
    /\ LoopDone
    /\ Len(frames) = 3
    /\ Len(extracted) = 2
    /\ extracted[1].frame_number = 1
    /\ extracted[2].frame_number = 3
    /\ frames[1].timestamp_ms # frames[3].timestamp_ms

(* Frames i..j all bear text, share one analysis, and lie within 5000 ms of
   frame i. *)
Run(i, j) ==
    /\ 1 <= i /\ i <= j /\ j <= Len(frames)
    /\ content_info(frames[i]).has_text
    /\ \A k \in i..j :
          /\ content_info(frames[k]) = content_info(frames[i])
          /\ frames[k].timestamp_ms - frames[i].timestamp_ms <= 5000
          /\ frames[i].timestamp_ms - frames[k].timestamp_ms <= 5000

(* A run that is not the tail of a longer run of the same analysis. *)
LeftMaximalRun(i, j) ==
    /\ Run(i, j)
    /\ i > 1 => content_info(frames[i - 1]) # content_info(frames[i])

KeptIn(i, j) == {k \in i..j : Kept(k)}

(* C7 as stated: every run of identical text-bearing frames within 5000 ms
   yields exactly one keyframe, its first frame. *)
C7_EveryRunKeepsItsFirstFrame ==
    LoopDone =>
        \A i \in 1..Len(frames) : \A j \in i..Len(frames) :
            LeftMaximalRun(i, j) => KeptIn(i, j) = {i}

(* C7 amended: a run whose first frame is kept yields exactly one keyframe,
   that first frame, and the first frame is kept whenever no frame of the
   batch was kept before it. *)
C7_RunKeepsOnlyItsKeptFirstFrame ==
    LoopDone =>
        \A i \in 1..Len(frames) : \A j \in i..Len(frames) :
            (Run(i, j) /\ (Kept(i) \/ KeptIn(1, i - 1) = {}))
                => KeptIn(i, j) = {i}

(* Three identical text frames, the last exactly 5000 ms after the first. *)
C7_Witness ==
    /\ LoopDone
    /\ Len(frames) = 3
    /\ Run(1, 3)
    /\ frames[3].timestamp_ms - frames[1].timestamp_ms = 5000
    /\ KeptIn(1, 3) = {1}

(* C8: a malformed frame (zero width or height, or a truncated plane) is
   analysed as has_text = false and is never emitted as a keyframe,
   wherever it stands in the batch and whatever precedes it. *)
C8_MalformedFrameSkipped ==
    \A i \in 1..Processed :
        ~WellFormed(frames[i]) =>
            /\ ~content_info(frames[i]).has_text
            /\ ~Kept(i)

(* The zero-size part of C8 alone: a frame of zero width or height is never
   emitted. *)
C8_ZeroSizeFrameSkipped ==
    \A i \in 1..Processed :
        (frames[i].width = 0 \/ frames[i].height = 0) => ~Kept(i)
(* C6 as stated: the 200-frame batch yields exactly 2 keyframes. *)
C6_ScenarioKeepsTwo == LoopDone => Len(extracted) = 2

(* C6 amended: the batch yields exactly 4 keyframes: the first frame, and
   one time-forced keyframe each time more than 5000 ms have passed since
   the last kept frame, i.e. the frames 5100 ms apart at positions 1, 52,
   103 and 154. *)
C6_ScenarioKeepsFour ==
    LoopDone =>
        /\ Len(extracted) = 4
        /\ \A k \in 1..4 :
              /\ extracted[k].frame_number = 1 + 51 * (k - 1)
              /\ extracted[k].timestamp_ms
                    = frames[1].timestamp_ms + 5100 * (k - 1)

C6_Witness ==
    /\ LoopDone
    /\ Len(frames) = ScenarioFrames
    /\ Len(extracted) = 4
    /\ extracted[2].timestamp_ms - extracted[1].timestamp_ms > MAX_INTERVAL_MS

---------------------------------------------------------------------------
(* Properties of the statistics under SpecStats *)

Quiescent == \A t \in Threads : t_pc[t] = "idle"

RECURSIVE SumOf(_, _)
SumOf(S, field) ==
    IF S = {} THEN 0
    ELSE LET c == CHOOSE x \in S : TRUE
         IN  c[field] + SumOf(S \ {c}, field)

(* C2: no get_stats result ever reports extracted_frames >
   processed_frames, under every interleaving of process_batch, reset and
   get_stats. *)
C2_StatsExtractedAtMostProcessed ==
    stats.extracted_frames <= stats.processed_frames

(* C5: when no call is running, the counters (what get_stats then reports)
   are the totals of the process_batch calls since the last reset: of
   every call begun after that reset returned (calls.lo) and of some of
   the calls that ran concurrently with it (calls.hi has these as well). *)
C5_StatsAreTotalsSinceReset ==
    Quiescent =>
        \E S \in SUBSET (calls.hi \ calls.lo) :
            /\ frame_count = SumOf(calls.lo \cup S, "n")
            /\ extracted_count = SumOf(calls.lo \cup S, "k")

---------------------------------------------------------------------------
(* Properties of the state machine under SpecSM *)

FromScanningOnText ==
    sm_last.stepped /\ sm_last.prev.kind = "Scanning" /\ sm_last.has_text

ExtractedOrDropped ==
    /\ state = Cooldown(config.cooldown_frames)
    /\ sm_last.action = IF sm_last.is_duplicate THEN Drop ELSE Extract

(* C9 as stated: from Scanning, a frame with text moves the machine to
   Cooldown{cooldown_frames} and returns Extract (Drop if duplicate), for
   every configuration. *)
C9_ScanningTextExtracts == FromScanningOnText => ExtractedOrDropped

(* C9 amended: from Scanning, a frame with text moves the machine to
   Cooldown{cooldown_frames} and returns Extract (Drop if duplicate), for
   every configuration with min_lock_frames <= 1. *)
C9_ScanningTextExtractsWhenLockAtMostOne ==
    (FromScanningOnText /\ config.min_lock_frames <= 1) => ExtractedOrDropped

C9_Witness ==
    /\ FromScanningOnText
    /\ config.min_lock_frames = 1
    /\ config.cooldown_frames = 2
    /\ state = Cooldown(2)
    /\ sm_last.action = Extract

(* C10: from Scanning, a frame with text under min_lock_frames > 1 (the
   default 3 included) moves the machine to Locked{1} and returns Continue,
   not Extract; only with min_lock_frames <= 1 does it go straight to
   Cooldown with Extract/Drop. *)
C10_ScanningTextLocksFirst ==
    FromScanningOnText =>
        /\ config.min_lock_frames > 1 =>
              (state = Locked(1) /\ sm_last.action = Continue)
        /\ state.kind = "Cooldown" <=> config.min_lock_frames <= 1
        /\ sm_last.action \in {Extract, Drop} <=> config.min_lock_frames <= 1

C10_Witness ==
    /\ FromScanningOnText
    /\ config = DefaultConfig
    /\ sm_last.prev = Scanning(5)
    /\ state = Locked(1)
    /\ sm_last.action = Continue

FromScanningNoText ==
    sm_last.stepped /\ sm_last.prev.kind = "Scanning" /\ ~sm_last.has_text

ScanningRowNoText ==
    /\ state = Scanning(IF sm_last.prev.n + 1 <= config.max_skip
                        THEN sm_last.prev.n + 1 ELSE config.max_skip)
    /\ sm_last.action = SkipFrames(sm_last.prev.n)

(* C11 as stated: from Scanning{skip}, a frame without text moves the
   machine to Scanning{min(skip+1, max_skip)} and returns SkipFrames(skip)
   with the old skip; over a run of such frames the skip count grows by one
   per frame until it stays at max_skip (it never shrinks). *)
C11_SkipGrowsAndSaturates ==
    FromScanningNoText =>
        /\ ScanningRowNoText
        /\ state.n >= sm_last.prev.n
        /\ state.n = sm_last.prev.n + 1 \/ state.n = config.max_skip

(* C11 amended: the row holds for every skip; the skip count grows by one
   per frame and saturates at max_skip when skip <= max_skip, and drops to
   max_skip at once when skip > max_skip (initial_skip > max_skip, or the
   Scanning{5} of reset under max_skip < 5). *)
C11_SkipGrowsFromBelowMax ==
    FromScanningNoText =>
        /\ ScanningRowNoText
        /\ sm_last.prev.n < config.max_skip => state.n = sm_last.prev.n + 1
        /\ sm_last.prev.n >= config.max_skip => state.n = config.max_skip

C11_Witness ==
    /\ FromScanningNoText
    /\ sm_last.prev.n = config.max_skip - 1
    /\ state = Scanning(config.max_skip)
    /\ frame_counter >= 2
    /\ sm_last.action = SkipFrames(config.max_skip - 1)

FromLocked == sm_last.stepped /\ sm_last.prev.kind = "Locked"

(* C12: from Locked{n}, on text, n+1 >= min_lock_frames gives
   Cooldown{cooldown_frames} with Extract (Drop if duplicate), else
   Locked{n+1} with Continue; without text, n >= min_lock_frames / 2
   (integer division) gives Cooldown{cooldown_frames} with Extract (Drop if
   duplicate), else Scanning{initial_skip} with Continue. *)
C12_LockedRow ==
    FromLocked =>
        LET n == sm_last.prev.n
        IN  IF sm_last.has_text
            THEN IF n + 1 >= config.min_lock_frames
                 THEN ExtractedOrDropped
                 ELSE state = Locked(n + 1) /\ sm_last.action = Continue
            ELSE IF 2 * n + 1 >= config.min_lock_frames
                 THEN ExtractedOrDropped
                 ELSE /\ state = Scanning(config.initial_skip)
                      /\ sm_last.action = Continue

C12_Witness ==
    /\ FromLocked
    /\ sm_last.has_text
    /\ sm_last.prev = Locked(2)
    /\ config.min_lock_frames = 3
    /\ state = Cooldown(config.cooldown_frames)
    /\ sm_last.action = Extract

FromCooldown == sm_last.stepped /\ sm_last.prev.kind = "Cooldown"

(* C13 as stated: from Cooldown{r}, every frame moves to
   Scanning{initial_skip} with Continue when r-1 = 0 and otherwise to
   Cooldown{r-1} with SkipFrames(1). *)
C13_CooldownRow ==
    FromCooldown =>
        IF sm_last.prev.n - 1 = 0
        THEN state = Scanning(config.initial_skip) /\ sm_last.action = Continue
        ELSE state = Cooldown(sm_last.prev.n - 1) /\ sm_last.action = SkipFrames(1)

(* C13 amended: from Cooldown{r}, every frame moves to
   Scanning{initial_skip} with Continue when r <= 1 (r-1 saturates at 0, so
   Cooldown{0} leaves at once too) and otherwise to Cooldown{r-1} with
   SkipFrames(1); after entering Cooldown{c} with c >= 1 the machine is in
   Cooldown{c-k} after k < c frames and in Scanning{initial_skip} after
   exactly c frames. *)
C13_CooldownRowSaturating ==
    /\ FromCooldown =>
          IF sm_last.prev.n <= 1
          THEN state = Scanning(config.initial_skip) /\ sm_last.action = Continue
          ELSE state = Cooldown(sm_last.prev.n - 1) /\ sm_last.action = SkipFrames(1)
    /\ (sm_last.since >= 0 /\ config.cooldown_frames >= 1) =>
          /\ sm_last.since < config.cooldown_frames =>
                state = Cooldown(config.cooldown_frames - sm_last.since)
          /\ sm_last.since = config.cooldown_frames =>
                state = Scanning(config.initial_skip)

C13_Witness ==
    /\ FromCooldown
    /\ config.cooldown_frames = 2
    /\ sm_last.since = 2
    /\ sm_last.prev = Cooldown(1)
    /\ sm_last.has_text
    /\ state = Scanning(config.initial_skip)

(* C14: after process_frame returns Extract or Drop, none of the next
   cooldown_frames calls returns Extract (or Drop), whatever the inputs; and
   the call right after an extraction never extracts, so text on two
   adjacent frames yields at most one extraction. *)
C14_CooldownRespected ==
    sm_last.stepped =>
        /\ sm_last.gap \in 1..config.cooldown_frames =>
              sm_last.action \notin {Extract, Drop}
        /\ sm_last.gap = 1 => sm_last.action \notin {Extract, Drop}

C14_Witness ==
    /\ sm_last.stepped
    /\ config.cooldown_frames = 2
    /\ config.min_lock_frames = 1
    /\ sm_last.gap = 2
    /\ sm_last.has_text
    /\ ~sm_last.is_duplicate
    /\ sm_last.action = Continue

(* C15: in every state, process_frame returns Extract only when
   is_duplicate is false, Drop only when is_duplicate is true, and in both
   cases the machine enters Cooldown{cooldown_frames}. *)
C15_DuplicateNeverExtracted ==
    sm_last.stepped =>
        /\ sm_last.action = Extract => ~sm_last.is_duplicate
        /\ sm_last.action = Drop => sm_last.is_duplicate
        /\ sm_last.action \in {Extract, Drop} =>
              state = Cooldown(config.cooldown_frames)

C15_Witness ==
    /\ sm_last.stepped
    /\ sm_last.prev.kind = "Locked"
    /\ sm_last.is_duplicate
    /\ sm_last.action = Drop
    /\ state = Cooldown(config.cooldown_frames)

---------------------------------------------------------------------------
(* Properties of the deduplicator under SpecDedup *)

Checked == dd_last.op \in {"check_duplicate", "is_duplicate"}

(* number of differing bits of two hash values, bit by bit *)
RECURSIVE BitDiff(_, _)
BitDiff(a, b) ==
    IF a = 0 /\ b = 0 THEN 0
    ELSE (IF a % 2 # b % 2 THEN 1 ELSE 0) + BitDiff(a \div 2, b \div 2)

(* the last history entry is the regions the call was given *)
Appended ==
    /\ history # <<>>
    /\ history[Len(history)] = dd_last.regions
    /\ last_keyframe_time_ms = dd_last.regions.timestamp_ms

(* C18: check_duplicate decides in priority order: (1) timestamp minus last
   kept time >= min_interval_ms: passes as ForceInterval; (2) else hamming
   distance to the last kept subtitle band > text_threshold: passes as
   TextChanged; (3) else similarity 1 - dist/64 > 0.75 (dist < 16): duplicate,
   TooSimilar; (4) otherwise, an empty history included: passes as NewScene.
   Every passing frame is appended to the history. *)
C18_DecisionPriority ==
    Checked =>
        LET r == dd_last.regions
            dist == BitDiff(r.subtitle_band, dd_last.last_band)
            d == dd_last.decision
        IN  /\ IF r.timestamp_ms - dd_last.last_time >= min_interval_ms
               THEN ~d.is_duplicate /\ d.reason = "ForceInterval"
               ELSE IF dd_last.had_last /\ dist > text_threshold
               THEN ~d.is_duplicate /\ d.reason = "TextChanged"
               ELSE IF dd_last.had_last /\ dist < 16
               THEN d.is_duplicate /\ d.reason = "TooSimilar"
               ELSE ~d.is_duplicate /\ d.reason = "NewScene"
            /\ ~d.is_duplicate => Appended

C18_Witness ==
    /\ dd_last.op = "check_duplicate"
    /\ dd_last.had_last
    /\ dd_last.regions.timestamp_ms = 100
    /\ dd_last.last_time = 0
    /\ dd_last.decision.reason = "TextChanged"
    /\ Len(history) = 2

(* C19: on a fresh or cleared deduplicator the first check_duplicate, one
   at timestamp 0 included, returns is_duplicate = false with reason
   ForceInterval; an identical frame checked 100 ms later is a duplicate. *)
C19_FirstCheckForcesInterval ==
    /\ (dd_last.n = 1 /\ dd_last.op = "check_duplicate") =>
          (~dd_last.decision.is_duplicate /\ dd_last.decision.reason = "ForceInterval")
    /\ (dd_last.n = 2 /\ dd_last.op = "check_duplicate"
          /\ dd_last.prev_op = "check_duplicate"
          /\ dd_last.regions.subtitle_band = dd_last.last_band
          /\ dd_last.regions.timestamp_ms = dd_last.last_time + 100) =>
          dd_last.decision.is_duplicate

(* C20: the history holds at most 3 entries, the most recently kept frames
   in the order they were kept, the oldest evicted first; clear empties it. *)
C20_HistoryIsLastThreeKept ==
    /\ Len(history) <= 3
    /\ Len(history) = IF Len(kept) <= 3 THEN Len(kept) ELSE 3
    /\ \A i \in 1..Len(history) :
          history[i] = kept[Len(kept) - Len(history) + i]
    /\ dd_last.n = 0 => history = <<>>

C20_Witness ==
    /\ Len(kept) = 4
    /\ Len(history) = 3
    /\ kept[1] # kept[4]
    /\ kept[1] # kept[2]
    /\ history[1] = kept[2]
    /\ history[3] = kept[4]

---------------------------------------------------------------------------
(* Properties of the extractor under SpecPipeline and SpecFullPipeline *)

(* C16: extracted_count() equals the number of frames for which
   process_frame returned a result since construction or the last reset. *)
C16_ExtractedCountIsResults == FrameExtractor_extracted_count = fx_results

(* C17: with min_lock_frames = 1 and cooldown_frames = c, every frame
   passing the diff filter and text on frames c, 2c, 3c only, each of those
   text frames is extracted with its own frame_number and no other frame is
   extracted. *)
C17_EveryTextFrameExtracted ==
    fx_last.called =>
        /\ fx_last.some <=> fx_last.has_text
        /\ fx_last.some => fx_last.frame_number = fx_last.frame.frame_number

(* The same when no frame at all is found a duplicate: the second text frame
   falls on the last frame of the cooldown and is not extracted. *)
C17_EveryFreshTextFrameExtracted ==
    (fx_last.called /\ fx_last.has_text /\ ~dd_last.decision.is_duplicate) =>
        fx_last.some


---------------------------------------------------------------------------
(* FrameDiffFilter (core/video/diff_filter.rs).

   A frame is modelled by what Frame::resize_to(8, 8) makes of it: 64 pixels,
   each a grey level g standing for the RGBA pixel (g, g, g, 255). *)

SampleSize == 8 * 8

uniform(g) == [i \in 1..SampleSize |-> g]

(* the first k pixels white, the others black *)
speckled(k) == [i \in 1..SampleSize |-> IF i <= k THEN 255 ELSE 0]

Pictures == {uniform(128), uniform(255), speckled(0), speckled(4), speckled(8)}

(* the presets of ExtractionConfig and FrameDiffFilter::new(), in hundredths *)
DiffThresholds == {10, 12, 15, 18}

luma(g) == (g * 299 + g * 587 + g * 114) \div 1000

RECURSIVE sum_upto(_, _)
sum_upto(f, n) == IF n = 0 THEN 0 ELSE f[n] + sum_upto(f, n - 1)

(* (gray, mean) *)
to_grayscale(frame) ==
    LET gray == [i \in 1..SampleSize |-> luma(frame[i]) % 256]
        sum == sum_upto([i \in 1..SampleSize |-> luma(frame[i])], SampleSize)
    IN  <<gray, (sum \div SampleSize) % 256>>

(* the u64 as its two parts: bits 0..55 (the set of those set) and the mean
   in bits 56..63 *)
phash(gray, mean) ==
    [bits |-> {i \in 0..55 : gray[i + 1] > mean}, brightness |-> mean]

color_histogram(frame) ==
    [b \in 0..63 |-> Cardinality({i \in 1..SampleSize : (luma(frame[i]) % 256) \div 4 = b})]

phash_hamming_distance(a, b) ==
    Cardinality((a.bits \ b.bits) \cup (b.bits \ a.bits))
        + Cardinality({i \in 0..7 : Bit(a.brightness, i) # Bit(b.brightness, i)})

(* histogram_similarity as the fraction dot / max(sum1, sum2): <<dot, max>>,
   <<0, 1>> standing for 0.0 *)
histogram_similarity(h1, h2) ==
    LET dot == sum_upto([i \in 1..64 |-> Min(h1[i - 1], h2[i - 1])], 64)
        sum1 == sum_upto([i \in 1..64 |-> h1[i - 1]], 64)
        sum2 == sum_upto([i \in 1..64 |-> h2[i - 1]], 64)
    IN  IF sum1 = 0 \/ sum2 = 0 THEN <<0, 1>>
        ELSE <<dot, IF sum1 >= sum2 THEN sum1 ELSE sum2>>

(* hash_diff * 0.5 + (1.0 - hist_diff) * 0.5 > threshold, with
   hash_diff = d / 64, hist_diff = sim[1] / sim[2] and threshold = t / 100,
   multiplied out by 128 * sim[2] * 100 *)
combined_score_exceeds(d, sim, t) ==
    100 * (d * sim[2] + 64 * (sim[2] - sim[1])) > 128 * sim[2] * t

remember_if_passed(last, current, passed) == IF passed THEN <<current>> ELSE last

(* self.last_hash = Some(current_hash), whatever should_process is *)
remember(last, current, passed) == <<current>>

should_process(frame) ==
    LET g == to_grayscale(frame)
        current_hash == phash(g[1], g[2])
        current_histogram == color_histogram(frame)
        result ==
            IF last_hash # <<>> /\ last_histogram # <<>>
            THEN combined_score_exceeds(
                     phash_hamming_distance(current_hash, last_hash[1]),
                     histogram_similarity(current_histogram, last_histogram[1]),
                     df_threshold)
            ELSE TRUE
    IN  /\ last_hash' = remember(last_hash, current_hash, result)
        /\ last_histogram' = remember(last_histogram, current_histogram, result)
        /\ df_last' = [op |-> "should_process",
                       prev |-> IF df_last.op = "should_process"
                                THEN <<df_last.frame>> ELSE <<>>,
                       prev_result |-> df_last.result,
                       frame |-> frame, result |-> result]

DiffRest == <<batchVars, counterVars, threadVars, smVars, dedupVars, fxVars, wavVars,
               vadVars,
              fmtVars, ncnnVars, audioVars>>

MaxDiffCalls == 4

InitDiff ==
    /\ BatchIdle
    /\ frame_count = 0
    /\ extracted_count = 0
    /\ t_pc = [t \in Threads |-> "idle"]
    /\ t_ret = [t \in Threads |-> [id |-> 0, n |-> 0, k |-> 0]]
    /\ count_holder = 0
    /\ stats = [processed_frames |-> 0, extracted_frames |-> 0]
    /\ calls = [next_id |-> 1, lo |-> {}, hi |-> {},
                clean |-> [t \in Threads |-> TRUE],
                during |-> [t \in Threads |-> {}]]
    /\ MachineNew
    /\ ExtractorNew
    /\ VadNew
    /\ FormatIdle
    /\ WavIdle
    /\ NcnnUninitialized
    /\ CallersIdle
    /\ \E t \in DiffThresholds : FilterWithThreshold(t)

DfShouldProcess ==
    /\ df_n < MaxDiffCalls
    /\ df_n' = df_n + 1
    /\ \E frame \in Pictures : should_process(frame)
    /\ UNCHANGED <<df_threshold, DiffRest>>

(* FrameDiffFilter::reset() *)
DfReset ==
    /\ df_n < MaxDiffCalls
    /\ df_n' = df_n + 1
    /\ last_hash' = <<>>
    /\ last_histogram' = <<>>
    /\ df_last' = [op |-> "reset", prev |-> <<>>, prev_result |-> FALSE,
                   frame |-> <<>>, result |-> FALSE]
    /\ UNCHANGED <<df_threshold, DiffRest>>

NextDiff == DfShouldProcess \/ DfReset

SpecDiff == InitDiff /\ [][NextDiff]_vars

---------------------------------------------------------------------------
(* C21: should_process lets the first frame after construction or reset pass;
   every later frame is judged against the frame submitted immediately
   before it, whether or not that one passed, and a frame identical to its
   predecessor is rejected. *)
C21_Differs(frame, prev) ==
    LET g == to_grayscale(frame)
        pg == to_grayscale(prev)
    IN  combined_score_exceeds(
            phash_hamming_distance(phash(g[1], g[2]), phash(pg[1], pg[2])),
            histogram_similarity(color_histogram(frame), color_histogram(prev)),
            df_threshold)

C21_OneStepHistory ==
    df_last.op = "should_process" =>
        /\ df_last.prev = <<>> => df_last.result
        /\ df_last.prev # <<>> =>
              (df_last.result <=> C21_Differs(df_last.frame, df_last.prev[1]))
        /\ df_last.prev = <<df_last.frame>> => ~df_last.result

(* a frame rejected against its rejected predecessor although it differs
   enough from the last frame that passed *)
C21_Witness ==
    /\ df_threshold = 10
    /\ df_last.op = "should_process"
    /\ df_last.prev = <<speckled(4)>>
    /\ ~df_last.prev_result
    /\ df_last.frame = speckled(8)
    /\ ~df_last.result
    /\ C21_Differs(speckled(8), speckled(0))
    /\ ~C21_Differs(speckled(4), speckled(0))


---------------------------------------------------------------------------
(* VadHandle (core/audio/vad.rs).

   A waveform is modelled by its length in samples.  A time in seconds is a
   whole number of seconds and a number of quarter sample periods, which
   holds every sample boundary at 16 kHz and the fractions between them
   exactly; the f32 arithmetic of the source is carried out on these exact
   values. *)

VAD_CHUNK_SIZE == 16000

SAMPLE_RATE == 16000

QuartersPerSecond == 4 * SAMPLE_RATE

Seconds(sec, q) == [sec |-> sec, q |-> q]

sec_lt(a, b) == a.sec < b.sec \/ (a.sec = b.sec /\ a.q < b.q)

sec_le(a, b) == a = b \/ sec_lt(a, b)

(* f32::min *)
sec_min(a, b) == IF sec_lt(b, a) THEN b ELSE a

(* n as f32 / sample_rate as f32 *)
samples_to_seconds(n) == Seconds(n \div SAMPLE_RATE, (n % SAMPLE_RATE) * 4)

SpeechSegment(start, end) == [start |-> start, end |-> end]

(* what get_all_segments() hands back: the first sample and the samples *)
RawSegment(start, n) == [start |-> start, n |-> n]

num_chunks_floor(total_samples) == total_samples \div VAD_CHUNK_SIZE

num_chunks(total_samples) == (total_samples + VAD_CHUNK_SIZE - 1) \div VAD_CHUNK_SIZE

(* the chunk &samples[start..end] of round i *)
chunk(i, total_samples) ==
    LET start == i * VAD_CHUNK_SIZE
    IN  [call |-> "accept_waveform", start |-> start,
         end |-> Min(start + VAD_CHUNK_SIZE, total_samples)]

engine_calls(total_samples) ==
    <<[call |-> "reset"], [call |-> "clear"]>>
        \o [i \in 1..num_chunks(total_samples) |-> chunk(i - 1, total_samples)]
        \o <<[call |-> "flush"], [call |-> "get_all_segments"]>>

(* the result of detect_speech_segments(samples, sample_rate) when the engine
   reports raw: ok, the segments, and the calls made on the engine *)
detect_speech_segments(total_samples, sample_rate, raw) ==
    IF sample_rate # SAMPLE_RATE
    THEN [ok |-> FALSE, segments |-> <<>>, calls |-> <<>>]
    ELSE LET total_duration == samples_to_seconds(total_samples)
             segments ==
                 [i \in 1..Len(raw) |->
                     SpeechSegment(samples_to_seconds(raw[i].start),
                                   sec_min(samples_to_seconds(raw[i].start + raw[i].n),
                                           total_duration))]
         IN  [ok |-> TRUE,
              segments |-> IF segments = <<>>
                           THEN <<SpeechSegment(Seconds(0, 0), total_duration)>>
                           ELSE segments,
              calls |-> engine_calls(total_samples)]

(* (t * sample_rate as f32) as usize: the cast drops the fraction *)
to_sample(t) == t.sec * SAMPLE_RATE + t.q \div 4

(* extract_segment(samples, 16000, segment): the bounds of the slice taken, or
   the panic of samples[start..end] when start > end *)
extract_segment(total_samples, segment) ==
    LET start == Min(to_sample(segment.start), total_samples)
        end == Min(to_sample(segment.end), total_samples)
    IN  [panicked |-> start > end, start |-> start, end |-> end]

(* inputs *)
WaveformLengths == {0, 1, 8000, 16000, 16001, 40000}

SampleRates == {16000, 8000, 44100}

RawSegments ==
    {RawSegment(a, n) : a \in {0, 8000, 16000, 48000}, n \in {0, 4000, 8000}}

RawResults ==
    {<<>>} \cup {<<r>> : r \in RawSegments}
           \cup {<<r1, r2>> : r1 \in {RawSegment(0, 4000)}, r2 \in RawSegments}

SegmentTimes ==
    {Seconds(0, 0), Seconds(0, 3), Seconds(0, 2 * SAMPLE_RATE), Seconds(1, 0),
     Seconds(1, 1), Seconds(3, 0)}

MaxVadCalls == 2

VadRest == <<batchVars, counterVars, threadVars, smVars, dedupVars, fxVars, wavVars,
              diffVars,
             fmtVars, ncnnVars, audioVars>>

InitVad ==
    /\ BatchIdle
    /\ frame_count = 0
    /\ extracted_count = 0
    /\ t_pc = [t \in Threads |-> "idle"]
    /\ t_ret = [t \in Threads |-> [id |-> 0, n |-> 0, k |-> 0]]
    /\ count_holder = 0
    /\ stats = [processed_frames |-> 0, extracted_frames |-> 0]
    /\ calls = [next_id |-> 1, lo |-> {}, hi |-> {},
                clean |-> [t \in Threads |-> TRUE],
                during |-> [t \in Threads |-> {}]]
    /\ MachineNew
    /\ ExtractorNew
    /\ FilterNew
    /\ VadNew
    /\ FormatIdle
    /\ WavIdle
    /\ NcnnUninitialized
    /\ CallersIdle

VdDetect ==
    /\ vad_n < MaxVadCalls
    /\ vad_n' = vad_n + 1
    /\ \E len \in WaveformLengths : \E rate \in SampleRates : \E raw \in RawResults :
          LET r == detect_speech_segments(len, rate, raw)
          IN  /\ vad_calls' = r.calls
              /\ vad_last' = [called |-> TRUE, len |-> len, sample_rate |-> rate,
                              raw |-> raw, ok |-> r.ok, segments |-> r.segments]
    /\ UNCHANGED <<ex_last, VadRest>>

VdExtract ==
    /\ vad_n < MaxVadCalls
    /\ vad_n' = vad_n + 1
    /\ \E len \in WaveformLengths : \E s \in SegmentTimes : \E e \in SegmentTimes :
          LET r == extract_segment(len, SpeechSegment(s, e))
          IN  ex_last' = [called |-> TRUE, len |-> len, segment |-> SpeechSegment(s, e),
                          panicked |-> r.panicked, start |-> r.start, end |-> r.end]
    /\ UNCHANGED <<vad_calls, vad_last, VadRest>>

NextVad == VdDetect \/ VdExtract

SpecVad == InitVad /\ [][NextVad]_vars

---------------------------------------------------------------------------
(* C27: detect_speech_segments with a sample rate other than 16000 fails
   without a call on the engine; otherwise the engine sees reset, clear,
   accept_waveform on consecutive chunks of at most 16000 samples that cover
   the input once and in order, flush, and then get_all_segments. *)
C27_Accepts == SelectSeq(vad_calls, LAMBDA c : c.call = "accept_waveform")

C27_EngineOrder ==
    vad_last.called =>
        IF vad_last.sample_rate # 16000
        THEN ~vad_last.ok /\ vad_calls = <<>>
        ELSE LET n == Len(vad_calls)
                 a == C27_Accepts
             IN  /\ vad_last.ok
                 /\ n = Len(a) + 4
                 /\ vad_calls[1].call = "reset"
                 /\ vad_calls[2].call = "clear"
                 /\ \A i \in 3..(n - 2) : vad_calls[i].call = "accept_waveform"
                 /\ vad_calls[n - 1].call = "flush"
                 /\ vad_calls[n].call = "get_all_segments"
                 /\ \A i \in 1..Len(a) :
                       /\ a[i].start = (IF i = 1 THEN 0 ELSE a[i - 1].end)
                       /\ a[i].start < a[i].end
                       /\ a[i].end - a[i].start <= 16000
                 /\ (IF a = <<>> THEN 0 ELSE a[Len(a)].end) = vad_last.len

(* a waveform whose last chunk is a short one *)
C27_Witness ==
    /\ vad_last.called
    /\ vad_last.sample_rate = 16000
    /\ vad_last.len = 40000
    /\ Len(C27_Accepts) = 3
    /\ C27_Accepts[3].end - C27_Accepts[3].start = 8000

(* the rate is checked before the engine is touched *)
C27_WitnessRate ==
    /\ vad_last.called
    /\ vad_last.sample_rate = 44100
    /\ ~vad_last.ok

(* C28: every segment of a successful detect_speech_segments satisfies
   0 <= start < end <= total_duration and the result is never empty, the
   single segment [0, total_duration] standing in when the engine reports
   none; for every waveform, empty ones and engine segments at or beyond the
   end included. *)
C28_SegmentsWellFormed ==
    (vad_last.called /\ vad_last.ok) =>
        LET total_duration == samples_to_seconds(vad_last.len)
        IN  /\ vad_last.segments # <<>>
            /\ \A i \in 1..Len(vad_last.segments) :
                  /\ sec_le(Seconds(0, 0), vad_last.segments[i].start)
                  /\ sec_lt(vad_last.segments[i].start, vad_last.segments[i].end)
                  /\ sec_le(vad_last.segments[i].end, total_duration)
            /\ vad_last.raw = <<>> =>
                  vad_last.segments = <<SpeechSegment(Seconds(0, 0), total_duration)>>

(* the parts of C28 that hold: never empty, the fallback, 0 <= start and
   end <= total_duration *)
C28_NeverEmptyAndBounded ==
    (vad_last.called /\ vad_last.ok) =>
        LET total_duration == samples_to_seconds(vad_last.len)
        IN  /\ vad_last.segments # <<>>
            /\ \A i \in 1..Len(vad_last.segments) :
                  /\ sec_le(Seconds(0, 0), vad_last.segments[i].start)
                  /\ sec_le(vad_last.segments[i].end, total_duration)
            /\ vad_last.raw = <<>> =>
                  vad_last.segments = <<SpeechSegment(Seconds(0, 0), total_duration)>>

(* C29: extract_segment(pcm, 16000, {s, e}) is pcm[start..end] with
   start = round(s * 16000) and end = round(e * 16000), each clamped to
   len(pcm); 8000 samples for {0.5, 1.0} on one second of audio; nothing
   outside pcm is read. *)
C29_round(t) == t.sec * 16000 + (t.q + 2) \div 4

C29_ExtractRounds ==
    (ex_last.called /\ sec_le(ex_last.segment.start, ex_last.segment.end)) =>
        /\ ~ex_last.panicked
        /\ ex_last.start = Min(C29_round(ex_last.segment.start), ex_last.len)
        /\ ex_last.end = Min(C29_round(ex_last.segment.end), ex_last.len)
        /\ 0 <= ex_last.start /\ ex_last.start <= ex_last.end
        /\ ex_last.end <= ex_last.len

(* what the code does instead: both products are truncated *)
C29_ExtractTruncates ==
    (ex_last.called /\ sec_le(ex_last.segment.start, ex_last.segment.end)) =>
        /\ ~ex_last.panicked
        /\ ex_last.start = Min(ex_last.segment.start.sec * 16000
                                  + ex_last.segment.start.q \div 4, ex_last.len)
        /\ ex_last.end = Min(ex_last.segment.end.sec * 16000
                                  + ex_last.segment.end.q \div 4, ex_last.len)
        /\ 0 <= ex_last.start /\ ex_last.start <= ex_last.end
        /\ ex_last.end <= ex_last.len

(* test_extract_segment: {0.5, 1.0} on 16000 samples *)
C29_TestExtractSegment ==
    (/\ ex_last.called
     /\ ex_last.len = 16000
     /\ ex_last.segment = SpeechSegment(Seconds(0, 32000), Seconds(1, 0)))
        => ex_last.end - ex_last.start = 8000


---------------------------------------------------------------------------
(* format_timestamp and the transcript line (api/audio.rs) *)

(* {:02}: at least two digits, zero-padded *)
pad2(n) == IF n < 10 THEN "0" \o ToString(n) ELSE ToString(n)

millis_per_thousand(q) == (q * 1000) \div QuartersPerSecond

(* ((seconds % 1.0) * 100.0) as u32 *)
millis(q) == (q * 100) \div QuartersPerSecond

format_timestamp(seconds) ==
    LET hours == seconds.sec \div 3600
        minutes == (seconds.sec % 3600) \div 60
        secs == seconds.sec % 60
    IN  pad2(hours) \o ":" \o pad2(minutes) \o ":" \o pad2(secs) \o ":"
            \o pad2(millis(seconds.q))

is_whitespace(c) == c \in {" ", "\t", "\n", "\r"}

RECURSIVE trim_start(_)
trim_start(str) ==
    IF str = "" THEN ""
    ELSE IF is_whitespace(Head(str)) THEN trim_start(Tail(str)) ELSE str

RECURSIVE trim_end(_)
trim_end(str) ==
    IF str = "" THEN ""
    ELSE IF is_whitespace(SubSeq(str, Len(str), Len(str)))
         THEN trim_end(SubSeq(str, 1, Len(str) - 1)) ELSE str

(* str::trim *)
trim(str) == trim_end(trim_start(str))

(* format!("{} - {}  --  {}", start_time, end_time, result.trim()) *)
transcript_line(segment, result) ==
    format_timestamp(segment.start) \o " - " \o format_timestamp(segment.end)
        \o "  --  " \o trim(result)

(* inputs *)
TimestampArguments ==
    {Seconds(0, 0), Seconds(0, 2 * SAMPLE_RATE), Seconds(0, QuartersPerSecond - 1),
     Seconds(1, 0), Seconds(9, 639), Seconds(59, 63360), Seconds(60, 0),
     Seconds(3599, 0), Seconds(3600, 0), Seconds(36000, 0),
     Seconds(359999, QuartersPerSecond - 1), Seconds(360000, 0)}

AsrTexts == {"hello", " hi there ", "  ", ""}

MaxFormatCalls == 3

FormatRest == <<batchVars, counterVars, threadVars, smVars, dedupVars, fxVars, wavVars,
                 diffVars,
                vadVars, ncnnVars, audioVars>>

InitFormat ==
    /\ BatchIdle
    /\ frame_count = 0
    /\ extracted_count = 0
    /\ t_pc = [t \in Threads |-> "idle"]
    /\ t_ret = [t \in Threads |-> [id |-> 0, n |-> 0, k |-> 0]]
    /\ count_holder = 0
    /\ stats = [processed_frames |-> 0, extracted_frames |-> 0]
    /\ calls = [next_id |-> 1, lo |-> {}, hi |-> {},
                clean |-> [t \in Threads |-> TRUE],
                during |-> [t \in Threads |-> {}]]
    /\ MachineNew
    /\ ExtractorNew
    /\ FilterNew
    /\ VadNew
    /\ FormatIdle
    /\ WavIdle
    /\ NcnnUninitialized
    /\ CallersIdle

FtFormat ==
    /\ fmt_n < MaxFormatCalls
    /\ fmt_n' = fmt_n + 1
    /\ \E seconds \in TimestampArguments :
          fmt_last' = [called |-> TRUE,
                       prev |-> IF fmt_last.called
                                THEN <<[seconds |-> fmt_last.seconds, out |-> fmt_last.out]>>
                                ELSE <<>>,
                       seconds |-> seconds, out |-> format_timestamp(seconds)]
    /\ UNCHANGED <<line_last, FormatRest>>

(* transcribe_pcm, lines 162..167: the line of one segment the ASR returned
   result for *)
FtLine ==
    /\ fmt_n < MaxFormatCalls
    /\ fmt_n' = fmt_n + 1
    /\ \E start \in TimestampArguments : \E end \in TimestampArguments :
       \E result \in AsrTexts :
          /\ sec_le(start, end)
          /\ line_last' = [called |-> TRUE, segment |-> SpeechSegment(start, end),
                           text |-> result, pushed |-> trim(result) # "",
                           line |-> IF trim(result) # ""
                                    THEN transcript_line(SpeechSegment(start, end), result)
                                    ELSE ""]
    /\ UNCHANGED <<fmt_last, FormatRest>>

NextFormat == FtFormat \/ FtLine

SpecFormat == InitFormat /\ [][NextFormat]_vars

---------------------------------------------------------------------------
(* C30: format_timestamp is monotone in its argument and produces exactly
   HH:MM:SS:CC, each field two digits, CC the centiseconds 00..99; the
   segment {0.50, 1.00} with the text "hello" gives the line
   "00:00:00:50 - 00:00:01:00  --  hello". *)
C30_Digits == {"0", "1", "2", "3", "4", "5", "6", "7", "8", "9"}

C30_Char(str, i) == SubSeq(str, i, i)

(* the order of the characters a timestamp is made of *)
C30_Rank(c) ==
    CASE c = "0" -> 0 [] c = "1" -> 1 [] c = "2" -> 2 [] c = "3" -> 3 [] c = "4" -> 4
      [] c = "5" -> 5 [] c = "6" -> 6 [] c = "7" -> 7 [] c = "8" -> 8 [] c = "9" -> 9
      [] OTHER -> 10

(* a <= b as strings *)
RECURSIVE C30_StrLe(_, _)
C30_StrLe(a, b) ==
    IF a = "" THEN TRUE
    ELSE IF b = "" THEN FALSE
    ELSE IF Head(a) = Head(b) THEN C30_StrLe(Tail(a), Tail(b))
    ELSE C30_Rank(Head(a)) < C30_Rank(Head(b))

C30_Shape(str) ==
    /\ Len(str) = 11
    /\ \A i \in {1, 2, 4, 5, 7, 8, 10, 11} : C30_Char(str, i) \in C30_Digits
    /\ \A i \in {3, 6, 9} : C30_Char(str, i) = ":"

C30_Centis(seconds) == (seconds.q * 100) \div 64000

C30_Fields(seconds, str) ==
    /\ SubSeq(str, Len(str) - 1, Len(str)) =
          (IF C30_Centis(seconds) < 10 THEN "0" ELSE "") \o ToString(C30_Centis(seconds))
    /\ C30_Centis(seconds) \in 0..99

C30_HelloLine ==
    (/\ line_last.called
     /\ line_last.segment = SpeechSegment(Seconds(0, 32000), Seconds(1, 0))
     /\ line_last.text = "hello")
        => /\ line_last.pushed
           /\ line_last.line = "00:00:00:50 - 00:00:01:00  --  hello"

C30_FormatTimestamp ==
    /\ fmt_last.called =>
          /\ C30_Shape(fmt_last.out)
          /\ C30_Fields(fmt_last.seconds, fmt_last.out)
          /\ \A i \in 1..Len(fmt_last.prev) :
                sec_le(fmt_last.prev[i].seconds, fmt_last.seconds)
                    => C30_StrLe(fmt_last.prev[i].out, fmt_last.out)
    /\ C30_HelloLine

C30_Below100h(seconds) == seconds.sec < 360000

C30_FormatTimestampBelow100h ==
    /\ (fmt_last.called /\ C30_Below100h(fmt_last.seconds)) =>
          /\ C30_Shape(fmt_last.out)
          /\ C30_Fields(fmt_last.seconds, fmt_last.out)
          /\ \A i \in 1..Len(fmt_last.prev) :
                sec_le(fmt_last.prev[i].seconds, fmt_last.seconds)
                    => C30_StrLe(fmt_last.prev[i].out, fmt_last.out)
    /\ C30_HelloLine

(* two arguments within the same second, and the line of the example *)
C30_Witness ==
    /\ fmt_last.called
    /\ fmt_last.prev = <<[seconds |-> Seconds(0, 32000), out |-> "00:00:00:50"]>>
    /\ fmt_last.seconds = Seconds(0, 63999)
    /\ fmt_last.out = "00:00:00:99"
    /\ line_last.called
    /\ line_last.line = "00:00:00:50 - 00:00:01:00  --  hello"


---------------------------------------------------------------------------
(* NcnnHandle (core/audio/handler.rs): the recognizer in a static OnceCell,
   behind a mutex.  A call is split where another thread can come between:
   init between Recognizer::new and NCNN_RECOGNIZER.set, transcribe between
   taking the lock and giving it back. *)

(* what recognizer.transcribe(samples, 16000.0) can come back with *)
AsrOutcomes ==
    {[ok |-> TRUE, text |-> "hello"], [ok |-> TRUE, text |-> " hi there "],
     [ok |-> TRUE, text |-> "  "], [ok |-> FALSE, text |-> ""]}

cell_replace(cell, recognizer) == [cell |-> <<recognizer>>, ok |-> TRUE]

(* OnceCell::set: Err, and the cell as it was, when it is full *)
cell_set(cell, recognizer) ==
    IF cell = <<>> THEN [cell |-> <<recognizer>>, ok |-> TRUE]
    ELSE [cell |-> cell, ok |-> FALSE]

(* transcribe up to the lock: the error it returns with, or "lock" *)
transcribe_enter(sample_rate, cell) ==
    IF sample_rate # SAMPLE_RATE THEN "SherpaNcnn"
    ELSE IF cell = <<>> THEN "NotInitialized"
    ELSE "lock"

always_free(owner) == TRUE

(* Mutex::lock returns once nobody holds the mutex *)
mutex_free(owner) == owner = 0

MaxNcnnCalls == 4

NcnnRest == <<batchVars, counterVars, threadVars, smVars, dedupVars, fxVars, wavVars,
               diffVars,
              vadVars, fmtVars, audioVars>>

InitNcnn ==
    /\ BatchIdle
    /\ frame_count = 0
    /\ extracted_count = 0
    /\ t_pc = [t \in Threads |-> "idle"]
    /\ t_ret = [t \in Threads |-> [id |-> 0, n |-> 0, k |-> 0]]
    /\ count_holder = 0
    /\ stats = [processed_frames |-> 0, extracted_frames |-> 0]
    /\ calls = [next_id |-> 1, lo |-> {}, hi |-> {},
                clean |-> [t \in Threads |-> TRUE],
                during |-> [t \in Threads |-> {}]]
    /\ MachineNew
    /\ ExtractorNew
    /\ FilterNew
    /\ VadNew
    /\ FormatIdle
    /\ WavIdle
    /\ NcnnUninitialized
    /\ CallersIdle

(* NcnnHandle::init, lines 35..39: Recognizer::new(config) *)
NhInitCreate(t) ==
    /\ nh_pc[t] = "idle"
    /\ nh_n < MaxNcnnCalls
    /\ nh_n' = nh_n + 1
    /\ \E created \in BOOLEAN :
          LET call == [NoHandleCall EXCEPT !.op = "init", !.recognizer = nh_n + 1,
                                           !.initialized = (NCNN_RECOGNIZER # <<>>)]
          IN  IF created
              THEN /\ nh_pc' = [nh_pc EXCEPT ![t] = "created"]
                   /\ nh_call' = [nh_call EXCEPT ![t] = call]
                   /\ UNCHANGED nh_last
              ELSE /\ nh_last' = [nh_last EXCEPT ![t] = [call EXCEPT !.result = "SherpaNcnn"]]
                   /\ UNCHANGED <<nh_pc, nh_call>>
    /\ UNCHANGED <<NCNN_RECOGNIZER, ncnn_owner, nh_inits, NcnnRest>>

(* NcnnHandle::init, lines 41..47: NCNN_RECOGNIZER.set(Mutex::new(recognizer)) *)
NhInitSet(t) ==
    /\ nh_pc[t] = "created"
    /\ LET r == cell_set(NCNN_RECOGNIZER, nh_call[t].recognizer)
       IN  /\ NCNN_RECOGNIZER' = r.cell
           /\ nh_inits' = IF r.ok THEN nh_inits + 1 ELSE nh_inits
           /\ nh_last' = [nh_last EXCEPT ![t] =
                 [nh_call[t] EXCEPT !.initialized = (NCNN_RECOGNIZER # <<>>),
                                    !.result = IF r.ok THEN "Ok" ELSE "SherpaNcnn"]]
    /\ nh_pc' = [nh_pc EXCEPT ![t] = "idle"]
    /\ nh_call' = [nh_call EXCEPT ![t] = NoHandleCall]
    /\ UNCHANGED <<ncnn_owner, nh_n, NcnnRest>>

(* NcnnHandle::transcribe, lines 71..90 *)
NhTranscribeEnter(t) ==
    /\ nh_pc[t] = "idle"
    /\ nh_n < MaxNcnnCalls
    /\ \E sample_rate \in SampleRates :
          LET e == transcribe_enter(sample_rate, NCNN_RECOGNIZER)
              call == [NoHandleCall EXCEPT !.op = "transcribe",
                                           !.sample_rate = sample_rate,
                                           !.initialized = (NCNN_RECOGNIZER # <<>>)]
          IN  IF e = "lock"
              THEN /\ mutex_free(ncnn_owner)
                   /\ ncnn_owner' = t
                   /\ nh_pc' = [nh_pc EXCEPT ![t] = "locked"]
                   /\ nh_call' = [nh_call EXCEPT ![t] = call]
                   /\ UNCHANGED nh_last
              ELSE /\ nh_last' = [nh_last EXCEPT ![t] = [call EXCEPT !.result = e]]
                   /\ UNCHANGED <<ncnn_owner, nh_pc, nh_call>>
    /\ nh_n' = nh_n + 1
    /\ UNCHANGED <<NCNN_RECOGNIZER, nh_inits, NcnnRest>>

(* NcnnHandle::transcribe, lines 92..104: the engine runs, the guard drops *)
NhTranscribeExit(t) ==
    /\ nh_pc[t] = "locked"
    /\ \E o \in AsrOutcomes :
          nh_last' = [nh_last EXCEPT ![t] =
              [nh_call[t] EXCEPT !.engine = TRUE,
                                 !.result = IF o.ok THEN "Ok" ELSE "SherpaNcnn",
                                 !.text = o.text]]
    /\ ncnn_owner' = 0
    /\ nh_pc' = [nh_pc EXCEPT ![t] = "idle"]
    /\ nh_call' = [nh_call EXCEPT ![t] = NoHandleCall]
    /\ UNCHANGED <<NCNN_RECOGNIZER, nh_inits, nh_n, NcnnRest>>

NextNcnn ==
    \E t \in Clients :
        \/ NhInitCreate(t)
        \/ NhInitSet(t)
        \/ NhTranscribeEnter(t)
        \/ NhTranscribeExit(t)

SpecNcnn == InitNcnn /\ [][NextNcnn]_vars

---------------------------------------------------------------------------
(* C26: NcnnHandle.transcribe called before any successful init returns
   NotInitialized; init is one-shot: once an init has succeeded every later
   init, a concurrent one included, returns an error and leaves the loaded
   recognizer in place, so at most one init ever succeeds. *)
C26_OneShot ==
    /\ nh_inits <= 1
    /\ (nh_inits = 1) = (NCNN_RECOGNIZER # <<>>)
    /\ \A t \in Clients :
          /\ (nh_last[t].op = "init" /\ nh_last[t].initialized) =>
                nh_last[t].result = "SherpaNcnn"
          /\ (nh_last[t].op = "init" /\ nh_last[t].result = "Ok") =>
                NCNN_RECOGNIZER = <<nh_last[t].recognizer>>

C26_TranscribeBeforeInit ==
    /\ \A t \in Clients :
          (nh_last[t].op = "transcribe" /\ ~nh_last[t].initialized) =>
              (nh_last[t].result = "NotInitialized" /\ ~nh_last[t].engine)
    /\ C26_OneShot

C26_TranscribeAt16kBeforeInit ==
    /\ \A t \in Clients :
          (/\ nh_last[t].op = "transcribe"
           /\ ~nh_last[t].initialized
           /\ nh_last[t].sample_rate = 16000) =>
              (nh_last[t].result = "NotInitialized" /\ ~nh_last[t].engine)
    /\ \A t \in Clients :
          (/\ nh_last[t].op = "transcribe"
           /\ ~nh_last[t].initialized
           /\ nh_last[t].sample_rate # 16000) =>
              (nh_last[t].result = "SherpaNcnn" /\ ~nh_last[t].engine)
    /\ C26_OneShot

(* a transcribe before any init, then two racing inits of which the second
   to reach the cell is turned away *)
C26_Witness ==
    /\ nh_last[1].op = "init" /\ nh_last[1].result = "Ok"
    /\ nh_last[2].op = "init" /\ nh_last[2].result = "SherpaNcnn"
    /\ nh_last[2].recognizer < nh_last[1].recognizer
    /\ NCNN_RECOGNIZER = <<nh_last[1].recognizer>>

C26_WitnessNotInitialized ==
    /\ nh_last[1].op = "transcribe"
    /\ nh_last[1].sample_rate = 16000
    /\ nh_last[1].result = "NotInitialized"
    /\ NCNN_RECOGNIZER = <<>>


---------------------------------------------------------------------------
(* AudioRecognizer::transcribe_audio (api/audio.rs) over load_wav_mono_f32
   (core/audio_utils.rs), VadHandle and NcnnHandle.

   A waveform is its length and the rate its samples are really at.  A call
   is split where it takes and gives back a mutex: the recognizer's vad
   mutex around detect_speech_segments, the mutex of NcnnHandle::transcribe
   around each engine call. *)

Ok(v) == [ok |-> TRUE, value |-> v]

Err(e) == [ok |-> FALSE, value |-> e]

Pcm(len, rate) == [len |-> len, rate |-> rate]

(* downsample_by_factor: one output sample per factor input samples, and one
   for what is left over *)
downsample_by_factor(input, factor) ==
    Pcm((input.len + factor - 1) \div factor, input.rate \div factor)

(* resample_to_16k_mono; the sinc resampler returns its whole output buffer
   of input.len() * 2 samples *)
resample_to_16k_mono(input, in_rate, sinc_ok) ==
    IF in_rate = 16000 THEN Ok(input)
    ELSE IF in_rate % 16000 = 0 THEN Ok(downsample_by_factor(input, in_rate \div 16000))
    ELSE IF ~sinc_ok THEN Err("Resample")
    ELSE Ok(Pcm(input.len * 2, (input.rate * 16000) \div in_rate))

never_resample(sample_rate) == FALSE

(* load_wav_mono_f32, line 47 *)
needs_resample(sample_rate) == sample_rate # 16000

load_wav_mono_f32(wav, sinc_ok) ==
    IF ~wav.readable \/ wav.sample_rate = 0 THEN Err("Wav")
    ELSE IF needs_resample(wav.sample_rate)
         THEN resample_to_16k_mono(Pcm(wav.len, wav.sample_rate), wav.sample_rate, sinc_ok)
         ELSE Ok(Pcm(wav.len, wav.sample_rate))

RECURSIVE join(_, _)
join(lines, sep) ==
    IF lines = <<>> THEN ""
    ELSE IF Len(lines) = 1 THEN lines[1]
    ELSE lines[1] \o sep \o join(Tail(lines), sep)

next_index_abort(index, n, ok) == IF ok THEN index + 1 ELSE n + 1

(* the for loop goes on to the next segment, also after `continue` *)
next_index(index, n, ok) == index + 1

(* inputs *)
WavFiles ==
    {[readable |-> FALSE, sample_rate |-> 0, len |-> 0],
     [readable |-> TRUE, sample_rate |-> 0, len |-> 0],
     [readable |-> TRUE, sample_rate |-> 16000, len |-> 16000],
     [readable |-> TRUE, sample_rate |-> 48000, len |-> 48000],
     [readable |-> TRUE, sample_rate |-> 44100, len |-> 8000]}

AudioRawResults == {<<>>, <<RawSegment(0, 4000), RawSegment(8000, 8000)>>}

DirectClient == 1

MaxDirectCalls == 1

AudioRest == <<batchVars, counterVars, threadVars, smVars, dedupVars, fxVars, wavVars,
                diffVars,
               vadVars, fmtVars>>

(* AudioRecognizer::create has returned Ok: the recognizer is loaded *)
InitAudio ==
    /\ BatchIdle
    /\ frame_count = 0
    /\ extracted_count = 0
    /\ t_pc = [t \in Threads |-> "idle"]
    /\ t_ret = [t \in Threads |-> [id |-> 0, n |-> 0, k |-> 0]]
    /\ count_holder = 0
    /\ stats = [processed_frames |-> 0, extracted_frames |-> 0]
    /\ calls = [next_id |-> 1, lo |-> {}, hi |-> {},
                clean |-> [t \in Threads |-> TRUE],
                during |-> [t \in Threads |-> {}]]
    /\ MachineNew
    /\ ExtractorNew
    /\ FilterNew
    /\ VadNew
    /\ FormatIdle
    /\ WavIdle
    /\ NCNN_RECOGNIZER = <<1>>
    /\ ncnn_owner = 0
    /\ nh_pc = [t \in Clients |-> "idle"]
    /\ nh_call = [t \in Clients |-> NoHandleCall]
    /\ nh_last = [t \in Clients |-> NoHandleCall]
    /\ nh_inits = 1
    /\ nh_n = 0
    /\ CallersIdle

(* transcribe_audio, lines 68..82, and transcribe_pcm up to line 112 *)
TaLoad(c) ==
    /\ a_pc[c] = "idle"
    /\ \E wav \in WavFiles : \E sinc_ok \in BOOLEAN :
          LET loaded == load_wav_mono_f32(wav, sinc_ok)
              pcm_16k == IF loaded.ok
                         THEN resample_to_16k_mono(loaded.value, 16000, sinc_ok)
                         ELSE loaded
          IN  IF pcm_16k.ok
              THEN /\ a_loc' = [a_loc EXCEPT ![c] =
                         [NoLocals EXCEPT !.loaded = TRUE,
                                          !.source_rate = wav.sample_rate,
                                          !.pcm_16k = pcm_16k.value]]
                   /\ a_pc' = [a_pc EXCEPT ![c] = "loaded"]
                   /\ UNCHANGED a_ret
              ELSE /\ a_ret' = [a_ret EXCEPT ![c] =
                         [returned |-> TRUE, ok |-> FALSE, value |-> pcm_16k.value]]
                   /\ a_pc' = [a_pc EXCEPT ![c] = "done"]
                   /\ UNCHANGED a_loc
    /\ UNCHANGED <<vad_owner, ncnnVars, AudioRest>>

(* transcribe_pcm, line 116: self.vad.lock() *)
TaVadLock(c) ==
    /\ a_pc[c] = "loaded"
    /\ mutex_free(vad_owner)
    /\ vad_owner' = c
    /\ a_pc' = [a_pc EXCEPT ![c] = "vad"]
    /\ UNCHANGED <<a_loc, a_ret, ncnnVars, AudioRest>>

(* transcribe_pcm, lines 119..131: the VAD runs, or the whole waveform stands
   in for its segments; the guard drops *)
TaVad(c) ==
    /\ a_pc[c] = "vad"
    /\ \E raw \in AudioRawResults :
          LET r == detect_speech_segments(a_loc[c].pcm_16k.len, 16000, raw)
              duration == samples_to_seconds(a_loc[c].pcm_16k.len)
          IN  a_loc' = [a_loc EXCEPT ![c].vad_failed = ~r.ok,
                                     ![c].speech_segments =
                                         IF r.ok THEN r.segments
                                         ELSE <<SpeechSegment(Seconds(0, 0), duration)>>,
                                     ![c].index = 1]
    /\ vad_owner' = 0
    /\ a_pc' = [a_pc EXCEPT ![c] = "segments"]
    /\ UNCHANGED <<a_ret, ncnnVars, AudioRest>>

(* transcribe_pcm, lines 140..157, into NcnnHandle::transcribe up to its lock *)
TaAsrEnter(c) ==
    /\ a_pc[c] = "segments"
    /\ a_loc[c].index <= Len(a_loc[c].speech_segments)
    /\ LET segment == a_loc[c].speech_segments[a_loc[c].index]
           segment_samples == extract_segment(a_loc[c].pcm_16k.len, segment)
           e == transcribe_enter(16000, NCNN_RECOGNIZER)
       IN  /\ ~segment_samples.panicked
           /\ e = "lock"
           /\ mutex_free(ncnn_owner)
           /\ ncnn_owner' = 0 - c
           /\ a_loc' = [a_loc EXCEPT ![c].asr_seen = @ \cup
                 {[sample_rate |-> 16000, rate |-> a_loc[c].pcm_16k.rate,
                   samples |-> segment_samples.end - segment_samples.start]}]
    /\ a_pc' = [a_pc EXCEPT ![c] = "asr"]
    /\ UNCHANGED <<vad_owner, a_ret, NCNN_RECOGNIZER, nh_pc, nh_call, nh_last, nh_inits,
                   nh_n, AudioRest>>

(* NcnnHandle::transcribe from its engine call on, and transcribe_pcm, lines
   158..183: the line is pushed or the segment skipped, and after the last
   segment the lines are joined and returned *)
TaAsr(c) ==
    /\ a_pc[c] = "asr"
    /\ \E o \in AsrOutcomes :
          LET segment == a_loc[c].speech_segments[a_loc[c].index]
              n == Len(a_loc[c].speech_segments)
              lines == IF o.ok /\ trim(o.text) # ""
                       THEN Append(a_loc[c].lines, transcript_line(segment, o.text))
                       ELSE a_loc[c].lines
              index == next_index(a_loc[c].index, n, o.ok)
          IN  /\ a_loc' = [a_loc EXCEPT ![c].lines = lines,
                                        ![c].asr = Append(@, o),
                                        ![c].index = index]
              /\ IF index > n
                 THEN /\ a_ret' = [a_ret EXCEPT ![c] =
                            [returned |-> TRUE, ok |-> TRUE, value |-> join(lines, "\n")]]
                      /\ a_pc' = [a_pc EXCEPT ![c] = "done"]
                 ELSE /\ a_pc' = [a_pc EXCEPT ![c] = "segments"]
                      /\ UNCHANGED a_ret
    /\ ncnn_owner' = 0
    /\ UNCHANGED <<vad_owner, NCNN_RECOGNIZER, nh_pc, nh_call, nh_last, nh_inits, nh_n,
                   AudioRest>>

(* a caller of NcnnHandle::transcribe beside the recognizer *)
DirectEnter ==
    /\ nh_n < MaxDirectCalls
    /\ NhTranscribeEnter(DirectClient)

DirectExit == NhTranscribeExit(DirectClient)

NextAudio ==
    \/ \E c \in Callers : TaLoad(c) \/ TaVadLock(c) \/ TaVad(c) \/ TaAsrEnter(c) \/ TaAsr(c)
    \/ DirectEnter
    \/ DirectExit

SpecAudio == InitAudio /\ [][NextAudio]_vars

---------------------------------------------------------------------------
(* C23: once the waveform is loaded transcribe_audio returns Ok, with one
   line for each segment whose ASR call succeeded with text that is not all
   whitespace, in the order of the VAD segments; a segment whose ASR call
   failed or gave only whitespace adds no line and stops nothing, and when
   every segment fails the transcript is empty. *)
RECURSIVE C23_Lines(_, _)
C23_Lines(segments, asr) ==
    IF segments = <<>> \/ asr = <<>> THEN <<>>
    ELSE LET rest == C23_Lines(Tail(segments), Tail(asr))
         IN  IF Head(asr).ok /\ trim(Head(asr).text) # ""
             THEN <<transcript_line(Head(segments), Head(asr).text)>> \o rest
             ELSE rest

C23_OneLinePerTranscribedSegment ==
    \A c \in Callers :
        (a_pc[c] = "done" /\ a_loc[c].loaded) =>
            /\ a_ret[c].ok
            /\ Len(a_loc[c].asr) = Len(a_loc[c].speech_segments)
            /\ a_loc[c].lines = C23_Lines(a_loc[c].speech_segments, a_loc[c].asr)
            /\ a_ret[c].value = join(a_loc[c].lines, "\n")
            /\ (\A i \in 1..Len(a_loc[c].asr) : ~a_loc[c].asr[i].ok) => a_ret[c].value = ""

(* the first segment's ASR call failed, the second gave "hello" *)
C23_Witness ==
    \E c \in Callers :
        /\ a_pc[c] = "done"
        /\ Len(a_loc[c].speech_segments) = 2
        /\ ~a_loc[c].asr[1].ok
        /\ a_loc[c].asr[2] = [ok |-> TRUE, text |-> "hello"]
        /\ a_ret[c] = [returned |-> TRUE, ok |-> TRUE,
                       value |-> "00:00:00:50 - 00:00:01:00  --  hello"]

(* every ASR call failed: an empty transcript, not an error *)
C23_WitnessAllFailed ==
    \E c \in Callers :
        /\ a_pc[c] = "done"
        /\ Len(a_loc[c].asr) = 2
        /\ ~a_loc[c].asr[1].ok /\ ~a_loc[c].asr[2].ok
        /\ a_ret[c] = [returned |-> TRUE, ok |-> TRUE, value |-> ""]

(* C24: every ASR call of transcribe_audio passes sample_rate = 16000 on
   audio that is at 16 kHz, resampled when the file was not; and
   NcnnHandle.transcribe turns any other sample_rate away with an error
   before the engine is touched. *)
C24_AsrAt16k ==
    /\ \A c \in Callers : \A call \in a_loc[c].asr_seen :
          call.sample_rate = 16000 /\ call.rate = 16000
    /\ \A t \in Clients :
          (nh_last[t].op = "transcribe" /\ nh_last[t].sample_rate # 16000) =>
              (nh_last[t].result = "SherpaNcnn" /\ ~nh_last[t].engine)
    /\ \A t \in Clients : nh_pc[t] = "locked" => nh_call[t].sample_rate = 16000

(* a 48 kHz file transcribed, and a direct call at another rate turned away *)
C24_Witness ==
    /\ \E c \in Callers :
          /\ a_pc[c] = "done"
          /\ a_loc[c].source_rate = 48000
          /\ a_loc[c].asr_seen # {}
    /\ nh_last[DirectClient].op = "transcribe"
    /\ nh_last[DirectClient].sample_rate = 44100
    /\ nh_last[DirectClient].result = "SherpaNcnn"

(* C25: one transcription at a time on a recognizer: while one
   transcribe_audio call is between the start of its VAD and the end of its
   last ASR call, no other call on the recognizer does VAD or ASR work; and
   no two engine invocations overlap. *)
C25_InVad(c) == a_pc[c] = "vad"

C25_InAsr(c) == a_pc[c] = "asr"

C25_Transcribing(c) == a_pc[c] \in {"vad", "segments", "asr"}

C25_EnginesExclusive ==
    /\ \A c, d \in Callers : (C25_InVad(c) /\ C25_InVad(d)) => c = d
    /\ \A c, d \in Callers : (C25_InAsr(c) /\ C25_InAsr(d)) => c = d
    /\ \A c \in Callers : \A t \in Clients : ~(C25_InAsr(c) /\ nh_pc[t] = "locked")
    /\ \A c \in Callers : C25_InVad(c) <=> vad_owner = c
    /\ \A c \in Callers : C25_InAsr(c) <=> ncnn_owner = 0 - c

C25_OneTranscriptionAtATime ==
    /\ \A c, d \in Callers :
          (c # d /\ C25_Transcribing(c)) => ~(C25_InVad(d) \/ C25_InAsr(d))
    /\ C25_EnginesExclusive

(* one call in its VAD while the other is in an ASR call; each engine still
   has a single user *)
C25_Witness ==
    /\ C25_InVad(1)
    /\ C25_InAsr(2)
    /\ vad_owner = 1
    /\ ncnn_owner = 0 - 2

(* the calls' ASR work interleaved: one call between two of its segments
   while the other is in an ASR call *)
C25_WitnessInterleaved ==
    /\ a_pc[1] = "segments" /\ a_loc[1].index = 2
    /\ C25_InAsr(2) /\ a_loc[2].index = 1


(* C22: a VAD failure never fails transcribe_audio: the driver falls back to
   the single segment [0, total_duration] and goes on with the ASR on it.
   The arm that does so is in TaVad; no call of transcribe_audio takes it,
   detect_speech_segments failing only for a sample rate other than the
   16000 it is passed. *)
C22_NoCallSeesTheVadFail == \A c \in Callers : ~a_loc[c].vad_failed

(* what the arm would leave behind *)
C22_FallbackIsWholeWaveform ==
    \A c \in Callers :
        a_loc[c].vad_failed =>
            a_loc[c].speech_segments =
                <<SpeechSegment(Seconds(0, 0), samples_to_seconds(a_loc[c].pcm_16k.len))>>


---------------------------------------------------------------------------
(* C37: the state machine never gets stuck: from every reachable state, as
   long as every frame has text and is no duplicate, Extract comes within
   max(cooldown_frames, 1) + max(min_lock_frames, 1) frames, and so again
   and again. *)
C37_Max(a, b) == IF a >= b THEN a ELSE b

C37_Bound == C37_Max(config.cooldown_frames, 1) + C37_Max(config.min_lock_frames, 1)

C37_ExtractWithinBound ==
    /\ sm_last.streak < C37_Bound
    /\ sm_last.waited <= C37_Bound

(* the whole bound is needed: an extraction, the cooldown, the lock, and the
   next extraction on the last frame the bound allows *)
C37_Witness ==
    /\ sm_last.stepped
    /\ sm_last.action = Extract
    /\ sm_last.waited = C37_Bound
    /\ config.cooldown_frames >= 1
    /\ config.min_lock_frames >= 2


---------------------------------------------------------------------------
(* C34: the single-frame extractor outputs only keyframes that contain
   text: every frame for which the state machine returns Extract is one on
   which the detector reported has_text, in every reachable state and for
   every configuration. *)
C34_ExtractOnlyOnText ==
    (sm_last.stepped /\ sm_last.action = Extract) => sm_last.has_text


---------------------------------------------------------------------------
(* C36: StateMachine.reset() restores the initial state of the machine's own
   configuration: whenever no frame has been processed since construction
   or reset, the frame counter is 0 and the state is Scanning{initial_skip},
   the state with_config builds, so that the frames that follow are treated
   as on a freshly built machine. *)
C36_ResetRestoresInitialState ==
    ~sm_last.stepped =>
        /\ frame_counter = 0
        /\ state = Scanning(config.initial_skip)


---------------------------------------------------------------------------
(* C33: in FrameDeduplicator, after any sequence of check_duplicate,
   check_duplicate_with_y_plane, is_duplicate and add calls,
   last_keyframe_time_ms equals the timestamp of the most recently kept
   frame, so that the force-interval test measures the time since that
   frame. *)
C33_LastKeyframeTimeIsLastKept ==
    dd_last.kept_ts >= 0 => last_keyframe_time_ms = dd_last.kept_ts


---------------------------------------------------------------------------
(* C32: every frame submitted to FrameExtractor, through process_frame,
   process_frame_with_detection or process_y_frame, advances the state
   machine by exactly one step, frames the diff filter rejects included:
   frame_count() equals the number of frames submitted since construction
   or reset. *)
FrameExtractor_frame_count == frame_counter

C32_EveryFrameAdvances == FrameExtractor_frame_count = fx_last.submitted


---------------------------------------------------------------------------
(* SpecRepeat: one caller, one manager, every frame of every batch well
   formed and scanning to the same text-bearing analysis, so that each
   batch starts with a frame that repeats the last keyframe of the batch
   before. *)

RepeatShape == [width |-> 100, height |-> 100, complete |-> TRUE,
                scan |-> RegionState(TRUE, 15)]

RepeatBatchesOfLen(n) ==
    {[i \in 1..n |-> YFrameData(RepeatShape, ts[i], i)] : ts \in [1..n -> Timestamps]}

StartRepeatBatch ==
    /\ pc = "idle"
    /\ \E n \in 0..MaxBatch :
          /\ frame_count + n <= MaxBatch
          /\ \E fs \in RepeatBatchesOfLen(n) : frames' = fs
    /\ pc' = "fold"
    /\ idx' = 1
    /\ last_content' = FoldInit.last_content
    /\ last_kept_ms' = FoldInit.last_kept_ms
    /\ extracted' = FoldInit.extracted
    /\ UNCHANGED <<counterVars, threadVars, smVars, dedupVars, fxVars, mediaVars>>

NextRepeat ==
    \/ StartRepeatBatch
    \/ DecideFrame
    \/ AddFrameCount
    \/ AddExtractedCount
    \/ Reset

SpecRepeat == Init /\ [][NextRepeat]_vars

(* C35: the keyframes process_batch returns depend only on the frames of
   that call: whatever calls of process_batch and reset came before, the
   locals of the loop are those of a fold over the call's own frames begun
   with no last-kept analysis and last-kept timestamp 0, and the first
   text-bearing frame of the batch is kept, even when it repeats the last
   keyframe of the batch before. *)
RECURSIVE C35_FreshFold(_)
C35_FreshFold(n) ==
    IF n = 0
    THEN [extracted |-> <<>>, last_content |-> None, last_kept_ms |-> 0]
    ELSE fold_step(C35_FreshFold(n - 1), frames[n])

C35_FirstTextFrame(i) ==
    /\ content_info(frames[i]).has_text
    /\ \A j \in 1..(i - 1) : ~content_info(frames[j]).has_text

C35_ResultDependsOnlyOnBatch ==
    /\ pc # "idle" =>
          [extracted |-> extracted, last_content |-> last_content,
           last_kept_ms |-> last_kept_ms] = C35_FreshFold(idx - 1)
    /\ LoopDone => \A i \in 1..Len(frames) : C35_FirstTextFrame(i) => Kept(i)

(* a batch was processed before and a frame of it kept; the loop of this
   call is over and its first frame, of the same analysis, is kept *)
C35_Witness ==
    /\ pc = "fold"
    /\ idx > Len(frames)
    /\ frame_count >= 1
    /\ extracted_count >= 1
    /\ Len(frames) >= 1
    /\ C35_FirstTextFrame(1)
    /\ Kept(1)


---------------------------------------------------------------------------
(* SpecManager: one caller of one FrameExtractorManager (api/video.rs),
   through process_frame, process_yuv_frame, process_y_frame, process_batch,
   get_stats and reset, one call at a time. *)

MaxMgrFrames == 2
MaxMgrBatch == 2

(* a RawFrame, by the subtitle band hash the pixels of its RGBA conversion
   give *)
RawFrame(band, ts, n) == [band |-> band, timestamp_ms |-> ts, frame_number |-> n]

(* RawFrame::to_rgba: timestamp_ms and frame_number are carried over *)
to_rgba(raw_frame) ==
    Frame(raw_frame.band, raw_frame.timestamp_ms, raw_frame.frame_number)

(* FrameExtractor::process_raw_frame(raw_frame, detector) *)
FxProcessRawFrame(raw_frame, has_text, passes) ==
    FxProcessFrame(to_rgba(raw_frame), has_text, passes)

(* FrameExtractorManager::process_frame *)
MgrProcessFrame ==
    /\ pc = "idle"
    /\ fx_n < MaxMgrFrames
    /\ \E band \in ScenarioBands : \E has_text \in BOOLEAN : \E passes \in BOOLEAN :
          FxProcessFrame(Frame(band, 33 * (fx_n + 1), fx_n + 1), has_text, passes)

(* FrameExtractorManager::process_yuv_frame *)
MgrProcessYuvFrame ==
    /\ pc = "idle"
    /\ fx_n < MaxMgrFrames
    /\ \E band \in ScenarioBands : \E has_text \in BOOLEAN : \E passes \in BOOLEAN :
          FxProcessRawFrame(RawFrame(band, 33 * (fx_n + 1), fx_n + 1), has_text, passes)

(* FrameExtractorManager::process_y_frame *)
MgrProcessYFrame ==
    /\ pc = "idle"
    /\ fx_n < MaxMgrFrames
    /\ \E band \in ScenarioBands : \E has_text \in BOOLEAN : \E passes \in BOOLEAN :
          FxProcessYFrame(Frame(band, 33 * (fx_n + 1), fx_n + 1), has_text, passes)

(* FrameExtractorManager::process_batch is called *)
MgrStartBatch ==
    /\ pc = "idle"
    /\ \E n \in 0..MaxMgrBatch :
          /\ frame_count + n <= MaxMgrBatch
          /\ frames' = [i \in 1..n |-> YFrameData(RepeatShape, 0, i)]
    /\ pc' = "fold"
    /\ idx' = 1
    /\ last_content' = FoldInit.last_content
    /\ last_kept_ms' = FoldInit.last_kept_ms
    /\ extracted' = FoldInit.extracted
    /\ UNCHANGED <<counterVars, threadVars, smVars, dedupVars, fxVars, mediaVars>>

(* FrameExtractorManager::get_stats *)
MgrGetStats ==
    /\ pc = "idle"
    /\ stats' = get_stats
    /\ UNCHANGED <<batchVars, counterVars, t_pc, t_ret, count_holder, calls,
                   smVars, dedupVars, fxVars, mediaVars>>

(* FrameExtractorManager::reset: the extractor, then the two counters (the
   manager's own deduplicator, which no other operation uses, is cleared
   too) *)
MgrReset ==
    /\ pc = "idle"
    /\ df_seen' = FALSE
    /\ state' = ExtractionState_new
    /\ frame_counter' = 0
    /\ sm_last' = NoFrameYet
    /\ history' = <<>>
    /\ last_keyframe_time_ms' = 0
    /\ locked_subtitle_region' = <<>>
    /\ kept' = <<>>
    /\ dd_last' = NoCallYet
    /\ fx_results' = 0
    /\ fx_last' = NoResultYet
    /\ frame_count' = 0
    /\ extracted_count' = 0
    /\ UNCHANGED <<fx_n, config, text_threshold, min_interval_ms,
                   batchVars, threadVars, mediaVars>>

NextManager ==
    \/ MgrProcessFrame
    \/ MgrProcessYuvFrame
    \/ MgrProcessYFrame
    \/ MgrStartBatch
    \/ DecideFrame
    \/ AddFrameCount
    \/ AddExtractedCount
    \/ MgrGetStats
    \/ MgrReset

SpecManager == Init /\ [][NextManager]_vars

(* C38: the single-frame operations of FrameExtractorManager leave the
   statistics unchanged: what get_stats reports changes in no step that
   processes a single frame, only in the steps of process_batch that add to
   the counters and in reset, which sets both to 0. *)
C38_StatsChangeOnlyByBatchAndReset ==
    [][get_stats' # get_stats =>
          /\ fx_n' = fx_n
          /\ \/ pc # "idle"
             \/ get_stats' = [processed_frames |-> 0, extracted_frames |-> 0]]_vars

(* get_stats has reported the one frame of a batch, while two single frames
   went through the extractor and one of them was returned *)
C38_Witness ==
    /\ pc = "idle"
    /\ fx_last.called
    /\ fx_last.some
    /\ FrameExtractor_frame_count = 2
    /\ stats = get_stats
    /\ stats.processed_frames = 1


---------------------------------------------------------------------------
(* SpecWav: load_wav_mono_f32 (core/audio_utils.rs) on 16-bit files.  A file
   is its channel count, its sample rate and its frames, a frame being one
   i16 sample per channel.  A mono f32 sample is kept exactly, as its
   numerator over 2 * i16::MAX. *)

MaxWavFrames == 2

WavSamples == {-2, 0, 2}

WavChannels == 1..3

(* reader.samples::<i16>(): the samples of the frames, interleaved *)
RECURSIVE interleaved(_)
interleaved(wav_frames) ==
    IF wav_frames = <<>> THEN <<>>
    ELSE wav_frames[1] \o interleaved(Tail(wav_frames))

(* lines 24..43: every sample over i16::MAX for one channel; otherwise the
   loop takes the next two samples of the stream, l and r, until one of them
   is missing, and pushes (l + r) * 0.5 / i16::MAX *)
mono_samples(channels, stream) ==
    IF channels = 1
    THEN [i \in 1..Len(stream) |-> 2 * stream[i]]
    ELSE [k \in 1..(Len(stream) \div 2) |-> stream[2 * k - 1] + stream[2 * k]]

(* load_wav_mono_f32 on a file at 16 kHz, or of sample rate 0 *)
load_wav_samples(wav) ==
    IF wav.sample_rate = 0 THEN Err("Wav")
    ELSE Ok(mono_samples(wav.channels, interleaved(wav.frames)))

WvLoad ==
    /\ ~wav_last.called
    /\ \E channels \in WavChannels : \E n \in 0..MaxWavFrames :
       \E wav_frames \in [1..n -> [1..channels -> WavSamples]] :
       \E sample_rate \in {0, 16000} :
          LET wav == [channels |-> channels, sample_rate |-> sample_rate,
                      frames |-> wav_frames]
          IN  wav_last' = [called |-> TRUE, wav |-> wav,
                           result |-> load_wav_samples(wav)]
    /\ UNCHANGED <<batchVars, counterVars, threadVars, smVars, dedupVars, fxVars,
                   diffVars, vadVars, fmtVars, ncnnVars, audioVars>>

NextWav == WvLoad

SpecWav == Init /\ [][NextWav]_vars

(* C31: load_wav_mono_f32 on a WAV of c >= 2 channels yields one mono sample
   per input frame, the average of that frame's channel 0 and channel 1 over
   i16::MAX, the channels beyond the second being ignored, for every c. *)
C31_OneSamplePerFrame ==
    (wav_last.called /\ wav_last.result.ok /\ wav_last.wav.channels >= 2) =>
        wav_last.result.value =
            [i \in 1..Len(wav_last.wav.frames) |->
                wav_last.wav.frames[i][1] + wav_last.wav.frames[i][2]]

===========================================================================
